---- MODULE Spec2Model ----
(***************************************************************************)
(* State-machine model of wgpu-profiler's GpuProfiler (src/src/lib.rs):    *)
(* the query-pool allocator, the frame pipeline (active frame, pending     *)
(* queue, eviction) and the reconstruction of the result tree.             *)
(***************************************************************************)
EXTENDS Integers, Sequences, FiniteSets, TLC

(* ------------------------------------------------------------------ *)
(* Bounds of the exploration                                            *)
(* ------------------------------------------------------------------ *)
DeepScopes == 3           \* scopes begun in a run that ends one frame
LongFrames == 3           \* frames ended in a run with one scope per frame
MaxPendingSetting == 2    \* largest max_num_pending_frames a caller passes
MaxSettingsChanges == 1   \* accepted change_settings calls in a run
MaxPools == 4             \* query pools alive at the same time
HandleWidth == 3          \* bits of the tree-handle counter (u32 in the source)
ScopesPerThread == 2      \* scopes each worker thread records
CounterWidth == 3         \* bits of num_open_scopes (u32 in the source)

(* ------------------------------------------------------------------ *)
(* Program constants                                                    *)
(* ------------------------------------------------------------------ *)
MIN_CAPACITY == 32
QUERY_SET_MAX_QUERIES == 8192
QUERY_SIZE == 8
NumThreads == 2           \* worker threads of the multithreaded scenario

HandleModulus == 2 ^ HandleWidth
CounterModulus == 2 ^ CounterWidth
ROOT_SCOPE_HANDLE == HandleModulus - 1

TIMESTAMP_QUERY == "TIMESTAMP_QUERY"
TIMESTAMP_QUERY_INSIDE_PASSES == "TIMESTAMP_QUERY_INSIDE_PASSES"
ALL_WGPU_TIMER_FEATURES == {TIMESTAMP_QUERY, TIMESTAMP_QUERY_INSIDE_PASSES}

\* The feature sets of the devices explored.
DeviceFeatures == {{TIMESTAMP_QUERY}, ALL_WGPU_TIMER_FEATURES}

VARIABLES
    created,                  \* GpuProfiler::new has returned Ok
    settings,                 \* GpuProfiler::settings
    unused_pools,             \* GpuProfiler::unused_pools
    used_pools,               \* active_frame.query_pools.used_pools
    frame_unused_pools,       \* active_frame.query_pools.unused_pools
    closed_scopes,            \* active_frame.closed_scope_sender/receiver
    pending_frames,           \* GpuProfiler::pending_frames
    num_open_scopes,          \* GpuProfiler::num_open_scopes
    next_scope_handle,        \* GpuProfiler::next_scope_handle
    size_for_new_query_pools, \* GpuProfiler::size_for_new_query_pools
    pools,                    \* the QueryPool objects, by identity
    open_scopes,              \* GpuTimerScope values held by the callers
    callbacks,                \* map_async callbacks that have not fired yet
    device_features,          \* wgpu::Device::features() of the one device
    panicked,                 \* the panic / failed assertion that ended the run
    last_call,                \* the last call and what it returned
    returned,                 \* results handed out by process_finished_frame
    dropped,                  \* frames evicted by end_frame
    frame_count,              \* successful end_frame calls so far
    begun_in_frame,           \* scopes begun since the last successful end_frame
    begun_total,              \* scopes begun so far
    closed_log,               \* scopes ended since the last successful end_frame
    frame_log,                \* per ended frame: the scopes ended in it
    discarded,                \* closed scopes a failed end_frame has dropped since it last succeeded
    settings_changes,         \* accepted change_settings calls so far
    workload,                 \* how many calls of each kind the callers make
    threads,                  \* per thread: where it is in begin_scope / end_scope
    debug_groups              \* debug groups pushed on the recorders and not popped

vars == <<created, settings, unused_pools, used_pools, frame_unused_pools,
          closed_scopes, pending_frames, num_open_scopes, next_scope_handle,
          size_for_new_query_pools, pools, open_scopes, callbacks,
          device_features, panicked, last_call, returned, dropped,
          frame_count, begun_in_frame, begun_total, closed_log,
          frame_log, discarded, settings_changes, workload, threads,
          debug_groups>>

\* The fields of GpuProfiler and of its active frame.
profiler_state == <<settings, unused_pools, used_pools, frame_unused_pools,
                    closed_scopes, pending_frames, num_open_scopes,
                    next_scope_handle, size_for_new_query_pools, pools>>

(* ------------------------------------------------------------------ *)
(* Helpers                                                              *)
(* ------------------------------------------------------------------ *)
Min(a, b) == IF a < b THEN a ELSE b
Max(a, b) == IF a > b THEN a ELSE b

Range(s) == {s[i] : i \in 1..Len(s)}

RECURSIVE SumSeq(_)
SumSeq(s) == IF s = <<>> THEN 0 ELSE Head(s) + SumSeq(Tail(s))

PoolIds == 1..MaxPools

\* What a buffer holds at a slot position: the timestamp of query i of the
\* frame being recorded, or bytes that are no timestamp of that frame.
TimestampOf(i) == <<i>>
Stale == <<>>

\* The slot (QUERY_SIZE bytes) a buffer holds at a byte offset. A buffer is
\* the sequence of its slots up to the last one written.
BufferRead(buf, offset) ==
    LET pos == offset \div QUERY_SIZE
    IN  IF pos + 1 <= Len(buf) THEN buf[pos + 1] ELSE Stale

\* The buffer after the slots vals were written at a byte offset.
BufferWrite(buf, offset, vals) ==
    LET pos == offset \div QUERY_SIZE
        n == Max(Len(buf), pos + Len(vals))
    IN  [i \in 1..n |->
            IF i > pos /\ i <= pos + Len(vals) THEN vals[i - pos]
            ELSE IF i <= Len(buf) THEN buf[i]
            ELSE Stale]

\* A slot of the pool table that holds no QueryPool.
NoPool == [alive |-> FALSE, capacity |-> 0, num_used_queries |-> 0,
           num_resolved_queries |-> 0, resolve_buffer |-> <<>>,
           read_buffer |-> <<>>, times_resolved |-> <<>>]

\* scope.query == None
NoQuery == [pool |-> 0, start_query_idx |-> 0, usage_state |-> "None"]

SettingsValues == [enable_timer_scopes : BOOLEAN,
                   enable_debug_groups : BOOLEAN,
                   max_num_pending_frames : 0..MaxPendingSetting]

DefaultSettings == [enable_timer_scopes |-> TRUE,
                    enable_debug_groups |-> TRUE,
                    max_num_pending_frames |-> 3]

\* validate with the comparison turned around: nothing is rejected.
validate_Lenient(s) == IF s.max_num_pending_frames < 0
                       THEN "InvalidMaxNumPendingFrames" ELSE "Ok"

\* GpuProfilerSettings::validate
validate(s) == IF s.max_num_pending_frames = 0
               THEN "InvalidMaxNumPendingFrames" ELSE "Ok"

\* QueryPool::new
QueryPool_new(capacity) ==
    [alive |-> TRUE, capacity |-> capacity, num_used_queries |-> 0,
     num_resolved_queries |-> 0, resolve_buffer |-> <<>>,
     read_buffer |-> <<>>, times_resolved |-> <<>>]

\* reset that leaves num_used_queries as it is.
QueryPool_reset_KeepsUsed(pool) ==
    [pool EXCEPT !.num_resolved_queries = 0,
                 !.resolve_buffer = [i \in 1..Len(@) |-> Stale],
                 !.read_buffer = [i \in 1..Len(@) |-> Stale],
                 !.times_resolved = <<>>]

\* reset that leaves num_resolved_queries as it is.
QueryPool_reset_KeepsResolved(pool) ==
    [pool EXCEPT !.num_used_queries = 0,
                 !.resolve_buffer = [i \in 1..Len(@) |-> Stale],
                 !.read_buffer = [i \in 1..Len(@) |-> Stale],
                 !.times_resolved = <<>>]

\* QueryPool::reset: the counters start again; the buffers keep their bytes,
\* which are no timestamps of the frame that uses the pool next.
QueryPool_reset(pool) ==
    [pool EXCEPT !.num_used_queries = 0, !.num_resolved_queries = 0,
                 !.resolve_buffer = [i \in 1..Len(@) |-> Stale],
                 !.read_buffer = [i \in 1..Len(@) |-> Stale],
                 !.times_resolved = <<>>]

\* The runs explored: many scopes in one frame; many frames with one scope
\* each; many frames and a change of settings.
Workloads ==
    {[scopes |-> DeepScopes, scopes_per_frame |-> DeepScopes, frames |-> 1,
      settings_changes |-> 0, max_pending |-> 1, pass_scopes |-> FALSE,
      devices |-> {{TIMESTAMP_QUERY}}, debug_groups |-> {TRUE}],
     [scopes |-> LongFrames, scopes_per_frame |-> 1, frames |-> LongFrames,
      settings_changes |-> 0, max_pending |-> MaxPendingSetting,
      pass_scopes |-> FALSE, devices |-> {ALL_WGPU_TIMER_FEATURES}, debug_groups |-> {TRUE}],
     [scopes |-> 1, scopes_per_frame |-> 1, frames |-> LongFrames,
      settings_changes |-> MaxSettingsChanges,
      max_pending |-> MaxPendingSetting, pass_scopes |-> TRUE,
      devices |-> DeviceFeatures, debug_groups |-> {TRUE}]}

\* The settings the callers of a run pass to new and change_settings.
SettingsOffered ==
    {s \in SettingsValues : /\ s.max_num_pending_frames <= workload.max_pending
                            /\ s.enable_debug_groups \in workload.debug_groups}

\* The settings passed to change_settings.
ChangesOffered == SettingsOffered

\* The owner thread (0) and the worker threads.
Threads == 0..NumThreads

\* A thread that is in no call and holds no scope.
IdleThread == [pc |-> "idle", label |-> 0, handle |-> 0, pool |-> 0,
               num_used_queries |-> 0, done |-> 0]

\* The debug groups of the recorders: the scopes whose group is open, and
\* the pop_debug_group calls made for a scope that had no group open.
NoDebugGroups == [open |-> {}, stray_pops |-> {}]

\* encoder_or_pass.push_debug_group(&scope.label)
push_debug_group(groups, label) ==
    [groups EXCEPT !.open = @ \cup {label}]

\* encoder_or_pass.pop_debug_group() at the end of the scope with this label
pop_debug_group(groups, label) ==
    IF label \in groups.open
    THEN [groups EXCEPT !.open = @ \ {label}]
    ELSE [groups EXCEPT !.stray_pops = @ \cup {label}]

(* ------------------------------------------------------------------ *)
(* Init: nothing constructed yet                                        *)
(* ------------------------------------------------------------------ *)
Init ==
    /\ created = FALSE
    /\ settings = DefaultSettings
    /\ unused_pools = <<>>
    /\ used_pools = <<>>
    /\ frame_unused_pools = <<>>
    /\ closed_scopes = <<>>
    /\ pending_frames = <<>>
    /\ num_open_scopes = 0
    /\ next_scope_handle = 0
    /\ size_for_new_query_pools = MIN_CAPACITY
    /\ pools = [p \in PoolIds |-> NoPool]
    /\ open_scopes = {}
    /\ callbacks = {}
    /\ panicked = "none"
    /\ last_call = [op |-> "none", result |-> "none", value |-> 0]
    /\ returned = <<>>
    /\ dropped = {}
    /\ frame_count = 0
    /\ begun_in_frame = 0
    /\ begun_total = 0
    /\ closed_log = <<>>
    /\ frame_log = <<>>
    /\ discarded = 0
    /\ settings_changes = 0
    /\ workload \in Workloads
    /\ device_features \in workload.devices
    /\ threads = [t \in Threads |-> IdleThread]
    /\ debug_groups = NoDebugGroups

\* GpuProfiler::new
New(s) ==
    /\ ~created
    /\ panicked = "none"
    /\ IF validate(s) # "Ok"
       THEN /\ last_call' = [op |-> "new", result |-> validate(s),
                          value |-> s.max_num_pending_frames]
            /\ UNCHANGED <<created, settings>>
       ELSE /\ created' = TRUE
            /\ settings' = s
            /\ last_call' = [op |-> "new", result |-> "Ok",
                          value |-> s.max_num_pending_frames]
    /\ UNCHANGED <<unused_pools, used_pools, frame_unused_pools, closed_scopes,
                   pending_frames, num_open_scopes, next_scope_handle,
                   size_for_new_query_pools, pools, open_scopes, callbacks,
                   device_features, panicked, returned, dropped, frame_count,
                   begun_in_frame, begun_total, closed_log, frame_log, discarded,
                   settings_changes, workload, threads,
                   debug_groups>>

(* ------------------------------------------------------------------ *)
(* Query allocator                                                      *)
(* ------------------------------------------------------------------ *)
FreePoolIds == {p \in PoolIds : ~pools[p].alive}

\* The capacity test without the two slots that are about to be taken.
CanReserve_NoRoomForPair(pool) == ~(pool.capacity < pool.num_used_queries)

\* GpuProfiler::try_reserve_query_pair: whether the compare-exchange loop
\* ends with Some(pair).
CanReserve(pool) == ~(pool.capacity < pool.num_used_queries + 2)

\* A compare-exchange that advances num_used_queries by one query.
NextUnused_OneQuery(num_used_queries) == num_used_queries + 1

\* The value try_reserve_query_pair stores into num_used_queries.
NextUnused(num_used_queries) == num_used_queries + 2

\* The pair try_reserve_query_pair returns for pool p.
ReservedPair(p, pool) ==
    [pool |-> p, start_query_idx |-> pool.num_used_queries,
     usage_state |-> "Reserved"]

\* The message of the expect on the pair taken from the pool about to be
\* pushed.
FreshPoolExpectation == "Freshly reserved pool doesn't have enough capacity"

\* A reuse that clones the last cached pool and leaves it in the cache.
CacheAfterReuse_Kept(cache) == cache

\* reserve_query_pair: the recycle cache after unused_pools.pop() took the
\* pool to reuse.
CacheAfterReuse(cache) == SubSeq(cache, 1, Len(cache) - 1)

\* A reserve_query_pair that adds a pool without trying the last pool again.
LastPoolHasRoom_NotRetried(last) == FALSE

\* reserve_query_pair: whether used_pools.last().and_then(try_reserve_query_pair)
\* yields a pair; last is 0 when used_pools is empty.
LastPoolHasRoom(last) == last # 0 /\ CanReserve(pools[last])

\* A new pool sized by size_for_new_query_pools alone.
NewPoolCapacity_WatermarkOnly ==
    Min(size_for_new_query_pools, QUERY_SET_MAX_QUERIES)

\* Capacity of the pool reserve_query_pair creates when no pool can be reused.
NewPoolCapacity ==
    Min(Max(SumSeq([i \in 1..Len(used_pools) |-> pools[used_pools[i]].capacity]),
            size_for_new_query_pools),
        QUERY_SET_MAX_QUERIES)

\* GpuProfiler::reserve_query_pair: the pair, and the pools after the call.
\* fresh is the identity given to a pool that has to be created.
reserve_query_pair(fresh) ==
    LET n == Len(used_pools)
        last == IF n = 0 THEN 0 ELSE used_pools[n]
    IN  IF LastPoolHasRoom(last)
        THEN [failed |-> FALSE,
              pair |-> ReservedPair(last, pools[last]),
              pools |-> [pools EXCEPT ![last].num_used_queries = NextUnused(@)],
              used_pools |-> used_pools,
              frame_unused_pools |-> frame_unused_pools]
        ELSE LET reuse == frame_unused_pools # <<>>
                 m == Len(frame_unused_pools)
                 id == IF reuse THEN frame_unused_pools[m] ELSE fresh
                 new_pool == IF reuse THEN pools[id]
                             ELSE QueryPool_new(NewPoolCapacity)
                 rest == IF reuse THEN CacheAfterReuse(frame_unused_pools)
                         ELSE frame_unused_pools
             IN  IF CanReserve(new_pool)
                 THEN [failed |-> FALSE,
                       pair |-> ReservedPair(id, new_pool),
                       pools |-> [pools EXCEPT ![id] =
                                    [new_pool EXCEPT !.num_used_queries = NextUnused(@)]],
                       used_pools |-> Append(used_pools, id),
                       frame_unused_pools |-> rest]
                 ELSE [failed |-> TRUE,
                       pair |-> NoQuery,
                       pools |-> pools,
                       used_pools |-> used_pools,
                       frame_unused_pools |-> frame_unused_pools]

\* Whether reserve_query_pair has to create a pool.
NeedsFreshPool ==
    LET n == Len(used_pools)
    IN  /\ (n = 0 \/ ~CanReserve(pools[used_pools[n]]))
        /\ frame_unused_pools = <<>>

\* timestamp_write_supported that asks for the same feature on every recorder.
timestamp_write_supported_AnyRecorder(is_pass, features) ==
    TIMESTAMP_QUERY \in features

\* timestamp_write_supported
timestamp_write_supported(is_pass, features) ==
    LET required_feature == IF is_pass THEN TIMESTAMP_QUERY_INSIDE_PASSES
                            ELSE TIMESTAMP_QUERY
    IN  required_feature \in features

\* next_scope_handle.fetch_add(1): the value returned and the value stored
\* (the addition wraps around).
HandleFetchAdd(counter) ==
    [handle |-> counter, next |-> (counter + 1) % HandleModulus]

\* A loop that hands out whatever fetch_add returned.
SkipsHandle_Never(handle) == FALSE

\* next_scope_tree_handle: the condition of the while loop.
SkipsHandle(handle) == handle = ROOT_SCOPE_HANDLE

\* GpuProfiler::next_scope_tree_handle with no other thread in between: the
\* handle handed out and the counter after the call. The value after
\* ROOT_SCOPE_HANDLE is 0, so the loop body runs once at most.
next_scope_tree_handle(counter) ==
    LET first == HandleFetchAdd(counter)
    IN  IF SkipsHandle(first.handle) THEN HandleFetchAdd(first.next)
        ELSE first

(* ------------------------------------------------------------------ *)
(* Scopes                                                               *)
(* ------------------------------------------------------------------ *)
\* AtomicU32::fetch_add and fetch_sub on num_open_scopes: the value stored
\* (both wrap around).
fetch_add(counter, n) == (counter + n) % CounterModulus
fetch_sub(counter, n) == (counter - n) % CounterModulus

\* The scope a caller may pass to with_parent: None (0) or an open scope.
ParentChoices == {0} \cup {s.label : s \in open_scopes}

ScopeWithLabel(l) == CHOOSE s \in open_scopes : s.label = l

\* begin_scope_internal, followed by the state change that `after` names
\* (begin_scope: start timestamp written, debug group pushed;
\* begin_pass_scope: pair handed to the pass), followed by with_parent.
BeginInternal(op, parent, is_pass, start_state, debug_group) ==
    /\ created
    /\ panicked = "none"
    /\ begun_in_frame < workload.scopes_per_frame
    /\ begun_total < workload.scopes
    /\ LET wants_query == /\ settings.enable_timer_scopes
                          /\ timestamp_write_supported(is_pass, device_features)
           h == next_scope_tree_handle(next_scope_handle)
       IN  /\ (wants_query /\ NeedsFreshPool) => FreePoolIds # {}
           /\ LET fresh == IF FreePoolIds = {} THEN 0
                           ELSE CHOOSE p \in FreePoolIds :
                                    \A q \in FreePoolIds : p <= q
                  r == IF wants_query THEN reserve_query_pair(fresh)
                       ELSE [failed |-> FALSE, pair |-> NoQuery,
                             pools |-> pools, used_pools |-> used_pools,
                             frame_unused_pools |-> frame_unused_pools]
                  label == begun_total + 1
                  scope == [label |-> label,
                            query |-> IF wants_query
                                      THEN [r.pair EXCEPT !.usage_state = start_state]
                                      ELSE NoQuery,
                            handle |-> h.handle,
                            parent_handle |-> IF parent = 0 THEN ROOT_SCOPE_HANDLE
                                              ELSE ScopeWithLabel(parent).handle,
                            has_debug_group |-> debug_group,
                            parent_label |-> parent]
              IN  /\ num_open_scopes' = fetch_add(num_open_scopes, 1)
                  /\ next_scope_handle' = h.next
                  /\ begun_in_frame' = begun_in_frame + 1
                  /\ begun_total' = begun_total + 1
                  /\ IF r.failed
                     THEN /\ panicked' = FreshPoolExpectation
                          /\ UNCHANGED <<pools, used_pools, frame_unused_pools,
                                         open_scopes, debug_groups>>
                     ELSE /\ pools' = r.pools
                          /\ used_pools' = r.used_pools
                          /\ frame_unused_pools' = r.frame_unused_pools
                          /\ open_scopes' = open_scopes \cup {scope}
                          /\ debug_groups' =
                                IF debug_group
                                THEN push_debug_group(debug_groups, label)
                                ELSE debug_groups
                          /\ UNCHANGED panicked
                  /\ last_call' = [op |-> op, result |-> "Ok", value |-> label]
    /\ UNCHANGED <<created, settings, unused_pools, closed_scopes,
                   pending_frames, size_for_new_query_pools, callbacks,
                   device_features, returned, dropped, frame_count,
                   closed_log, frame_log, discarded, settings_changes,
                   workload, threads>>

\* GpuProfiler::begin_scope on an encoder or a pass, then with_parent.
BeginScope(parent, is_pass) ==
    BeginInternal("begin_scope", parent, is_pass, "OnlyStartWritten",
                  settings.enable_debug_groups)

\* GpuProfiler::begin_pass_scope (always on an encoder), then with_parent.
BeginPassScope(parent) ==
    /\ workload.pass_scopes
    /\ BeginInternal("begin_pass_scope", parent, FALSE,
                  "ReservedForPassTimestampWrites", FALSE)

\* end_scope with the pop inside the branch of a scope that has a query.
PopsDebugGroup_OnlyTimed(scope) ==
    scope.has_debug_group /\ scope.query # NoQuery

\* Whether end_scope pops a debug group for the scope.
PopsDebugGroup(scope) == scope.has_debug_group

\* end_scope writing an end timestamp for every pair it is handed.
EndTimestampWrites_AnyPair(query) ==
    IF query = NoQuery THEN {}
    ELSE {[pool |-> query.pool, query |-> query.start_query_idx + 1]}

\* The queries end_scope writes a timestamp to:
\* write_timestamp(&query.pool.query_set, query.start_query_idx + 1) in the
\* OnlyStartWritten arm, nothing in the other arms.
EndTimestampWrites(query) ==
    IF query.usage_state = "OnlyStartWritten"
    THEN {[pool |-> query.pool, query |-> query.start_query_idx + 1]}
    ELSE {}

\* What is recorded of a scope that end_scope has sent to the channel.
ClosedLogEntry(scope) ==
    [label |-> scope.label,
     parent_label |-> scope.parent_label,
     timed |-> scope.query # NoQuery]

\* GpuProfiler::end_scope
EndScope(scope) ==
    /\ created
    /\ panicked = "none"
    /\ scope \in open_scopes
    /\ LET state == scope.query.usage_state
           closed == IF state = "OnlyStartWritten"
                     THEN [scope EXCEPT !.query.usage_state = "BothStartAndEndWritten"]
                     ELSE scope
       IN  IF state = "Reserved"
           THEN /\ panicked' = "Scope has been reserved but isn't used for anything!"
                /\ UNCHANGED <<open_scopes, closed_scopes, num_open_scopes,
                               closed_log, debug_groups>>
           ELSE IF state = "BothStartAndEndWritten"
           THEN /\ panicked' = "Scope has already been closed!"
                /\ UNCHANGED <<open_scopes, closed_scopes, num_open_scopes,
                               closed_log, debug_groups>>
           ELSE /\ open_scopes' = open_scopes \ {scope}
                /\ debug_groups' =
                      IF PopsDebugGroup(scope)
                      THEN pop_debug_group(debug_groups, scope.label)
                      ELSE debug_groups
                /\ closed_scopes' = Append(closed_scopes, closed)
                /\ num_open_scopes' = fetch_sub(num_open_scopes, 1)
                /\ closed_log' = Append(closed_log,
                                        ClosedLogEntry(scope))
                /\ UNCHANGED panicked
    /\ last_call' = [op |-> "end_scope", result |-> "Ok", value |-> scope.label,
                     writes |-> EndTimestampWrites(scope.query)]
    /\ UNCHANGED <<created, settings, unused_pools, used_pools,
                   frame_unused_pools, pending_frames, next_scope_handle,
                   size_for_new_query_pools, pools, callbacks, device_features,
                   returned, dropped, frame_count, begun_in_frame, begun_total,
                   frame_log, discarded, settings_changes, workload, threads>>

\* encoder.resolve_query_set(query_set, first..last, resolve_buffer,
\* destination_offset): the queries first..last-1 are written to the resolve
\* buffer, one slot each, from destination_offset on.
resolve_query_set(pool, first, last, destination_offset) ==
    [pool EXCEPT
        !.resolve_buffer =
            BufferWrite(@, destination_offset,
                        [k \in 1..(last - first) |-> TimestampOf(first + k - 1)]),
        !.times_resolved =
            [i \in 1..Max(Len(@), last) |->
                (IF i <= Len(@) THEN @[i] ELSE 0)
                  + (IF i > first /\ i <= last THEN 1 ELSE 0)]]

\* encoder.copy_buffer_to_buffer(resolve_buffer, 0, read_buffer, 0, size)
copy_buffer_to_buffer(pool, size) ==
    [pool EXCEPT
        !.read_buffer =
            BufferWrite(@, 0,
                        [k \in 1..(size \div QUERY_SIZE) |->
                            BufferRead(pool.resolve_buffer, (k - 1) * QUERY_SIZE)])]

\* Whether resolve_queries has anything to do for a pool.
NeedsResolve_Always(pool) == pool.alive

\* Whether resolve_queries has anything to do for a pool (it goes on to the
\* next pool when num_resolved_queries == num_used_queries).
NeedsResolve(pool) == pool.num_resolved_queries # pool.num_used_queries

\* The copy sized by the newly resolved queries only.
CopySize_OnlyUnresolved(num_resolved_queries, num_used_queries) ==
    (num_used_queries - num_resolved_queries) * QUERY_SIZE

\* The number of bytes resolve_queries copies to the read buffer.
CopySize(num_resolved_queries, num_used_queries) ==
    num_used_queries * QUERY_SIZE

\* The body of the loop of resolve_queries for a pool that has unresolved
\* queries: the pool after the resolve and copy commands (the commands take
\* effect in the order in which they are recorded).
ResolvePool(pool) ==
    LET num_used_queries == pool.num_used_queries
        num_resolved_queries == pool.num_resolved_queries
        resolved == resolve_query_set(pool, num_resolved_queries,
                                      num_used_queries,
                                      num_resolved_queries * QUERY_SIZE)
        stored == [resolved EXCEPT !.num_resolved_queries = num_used_queries]
    IN  copy_buffer_to_buffer(stored,
                              CopySize(num_resolved_queries, num_used_queries))

\* GpuProfiler::resolve_queries
ResolveQueries ==
    /\ created
    /\ panicked = "none"
    /\ LET todo == {p \in Range(used_pools) : NeedsResolve(pools[p])}
           num_queries ==
               SumSeq([i \in 1..Len(used_pools) |->
                         IF used_pools[i] \in todo
                         THEN pools[used_pools[i]].num_used_queries
                                - pools[used_pools[i]].num_resolved_queries
                         ELSE 0])
       IN  IF \E p \in todo :
                 ~(pools[p].num_resolved_queries < pools[p].num_used_queries)
           THEN /\ panicked' = "assertion failed: num_resolved_queries < num_used_queries"
                /\ last_call' = [op |-> "resolve_queries", result |-> "panic",
                                 value |-> num_queries]
                /\ UNCHANGED pools
           ELSE /\ pools' = [p \in PoolIds |->
                               IF p \in todo THEN ResolvePool(pools[p])
                               ELSE pools[p]]
                /\ last_call' = [op |-> "resolve_queries", result |-> "Ok",
                                 value |-> num_queries]
                /\ UNCHANGED panicked
    /\ UNCHANGED <<created, settings, unused_pools, used_pools,
                   frame_unused_pools, closed_scopes, pending_frames,
                   num_open_scopes, next_scope_handle, size_for_new_query_pools,
                   open_scopes, callbacks, device_features, returned,
                   dropped, frame_count, begun_in_frame, begun_total, closed_log,
                   frame_log, discarded, settings_changes, workload, threads,
                   debug_groups>>

(* ------------------------------------------------------------------ *)
(* Frame pipeline                                                       *)
(* ------------------------------------------------------------------ *)
\* The map built with insert(0, scope) in place of push(scope).
GroupByParent_Reversed(scopes) ==
    [h \in {scopes[i].parent_handle : i \in 1..Len(scopes)} |->
        LET same == SelectSeq(scopes, LAMBDA sc : sc.parent_handle = h)
        IN  [i \in 1..Len(same) |-> same[Len(same) + 1 - i]]]

\* The closed_scope_by_parent_handle map end_frame builds from the channel:
\* entry(parent_handle).or_default().push(scope), in channel order.
GroupByParent(scopes) ==
    [h \in {scopes[i].parent_handle : i \in 1..Len(scopes)} |->
        SelectSeq(scopes, LAMBDA sc : sc.parent_handle = h)]

\* The difference taken the wrong way round with a saturating subtraction.
NumUnresolvedQueries_Swapped(frame_pools) ==
    SumSeq([i \in 1..Len(frame_pools) |->
              Max(0, pools[frame_pools[i]].num_resolved_queries
                       - pools[frame_pools[i]].num_used_queries)])

\* Sum over the pools of a frame of used - resolved.
NumUnresolvedQueries(frame_pools) ==
    SumSeq([i \in 1..Len(frame_pools) |->
              pools[frame_pools[i]].num_used_queries
                - pools[frame_pools[i]].num_resolved_queries])

\* Sum over the pools of a frame of the used slots.
NumUsedQueries(frame_pools) ==
    SumSeq([i \in 1..Len(frame_pools) |-> pools[frame_pools[i]].num_used_queries])

\* A threshold of the whole watermark instead of half of it.
KeepsPool_WholeWatermark(pool, size, timer_scopes) ==
    timer_scopes /\ pool.capacity >= size

\* Whether reset_and_cache_unused_query_pools keeps a pool.
KeepsPool(pool, size, timer_scopes) ==
    timer_scopes /\ pool.capacity >= size \div 2

\* GpuProfiler::reset_and_cache_unused_query_pools: the pool table and
\* the recycle cache after the call.
reset_and_cache_unused_query_pools(discarded_pools, size, timer_scopes) ==
    [pools |-> [p \in PoolIds |->
                   IF p \in Range(discarded_pools)
                   THEN IF KeepsPool(pools[p], size, timer_scopes)
                        THEN QueryPool_reset(pools[p])
                        ELSE NoPool
                   ELSE pools[p]],
     frame_unused_pools |->
         frame_unused_pools \o
             SelectSeq(discarded_pools,
                       LAMBDA p : KeepsPool(pools[p], size, timer_scopes))]

\* An unmap that leaves the pending mappings of the buffer in flight.
AbortMappings_Deferred(cbs, discarded_pools) == cbs

\* QueryPool::reset unmaps the read buffer (and a pool that is not kept drops
\* it): the mappings still in flight on these pools are cancelled, their
\* callbacks run at once with Err, which the callback ignores.
AbortMappings(cbs, discarded_pools) ==
    {cb \in cbs : cb.pool \notin Range(discarded_pools)}

\* The assertion at the end of end_frame.
PendingFramesAssertion ==
    "assertion failed: self.pending_frames.len() <= self.settings.max_num_pending_frames"

\* Eviction of the oldest pending frame: Vec::remove(0).
EvictedIndex_Oldest(frames) == 1

\* Which pending frame end_frame evicts when the queue is full: Vec::pop.
EvictedIndex(frames) == Len(frames)

\* The overflow test off by one.
MustEvict_OffByOne(frames, max) == Len(frames) > max

\* Whether end_frame evicts a frame before it pushes the new one.
MustEvict(frames, max) == Len(frames) = max

\* The first early return placed after the frame has been taken out of
\* the active frame.
EndFrameUnclosedScopes_TakesFrame ==
    /\ num_open_scopes # 0
    /\ last_call' = [op |-> "end_frame", result |-> "UnclosedScopes",
                     value |-> num_open_scopes]
    /\ used_pools' = <<>>
    /\ closed_scopes' = <<>>
    /\ pools' = [p \in PoolIds |->
                   IF p \in Range(used_pools) THEN NoPool ELSE pools[p]]
    /\ UNCHANGED <<discarded, frame_unused_pools, pending_frames,
                   size_for_new_query_pools, callbacks, panicked, dropped,
                   frame_count, begun_in_frame, closed_log, frame_log>>

\* GpuProfiler::end_frame, first early return: scopes are still open.
EndFrameUnclosedScopes ==
    /\ num_open_scopes # 0
    /\ last_call' = [op |-> "end_frame", result |-> "UnclosedScopes",
                     value |-> num_open_scopes]
    /\ UNCHANGED <<discarded, used_pools, frame_unused_pools, closed_scopes,
                   pending_frames, size_for_new_query_pools, pools, callbacks,
                   panicked, dropped, frame_count, begun_in_frame, closed_log,
                   frame_log>>

\* GpuProfiler::end_frame, second early return: the used pools and the
\* closed scopes have been moved into new_pending_frame, which is dropped.
EndFrameUnresolvedQueries ==
    /\ num_open_scopes = 0
    /\ NumUnresolvedQueries(used_pools) # 0
    /\ used_pools' = <<>>
    /\ closed_scopes' = <<>>
    /\ pools' = [p \in PoolIds |->
                   IF p \in Range(used_pools) THEN NoPool ELSE pools[p]]
    /\ last_call' = [op |-> "end_frame", result |-> "UnresolvedQueries",
                     value |-> NumUnresolvedQueries(used_pools)]
    /\ discarded' = discarded + Len(closed_scopes)
    /\ UNCHANGED <<frame_unused_pools, pending_frames,
                   size_for_new_query_pools, callbacks, panicked, dropped,
                   frame_count, begun_in_frame, closed_log, frame_log>>

\* A receiver that is read without taking the scopes out of the channel.
LeftInChannel_NotTaken(closed) == closed

\* What the channel of closed scopes holds after end_frame iterated
\* closed_scope_receiver.try_iter() to its end.
LeftInChannel(closed) == <<>>

\* The capacities of a list of pools.
Capacities(pool_list) ==
    [i \in 1..Len(pool_list) |-> pools[pool_list[i]].capacity]

\* A watermark that follows the frame that ended.
SizeAfterFrame_LastFrameOnly(size, num_used_queries) ==
    Min(num_used_queries, QUERY_SET_MAX_QUERIES)

\* GpuProfiler::end_frame: size_for_new_query_pools after a frame that used
\* num_used_queries queries.
SizeAfterFrame(size, num_used_queries) ==
    Min(Max(size, num_used_queries), QUERY_SET_MAX_QUERIES)

\* GpuProfiler::end_frame past both checks: watermark, eviction, map_async,
\* push, assertion.
EndFrameOk ==
    /\ num_open_scopes = 0
    /\ NumUnresolvedQueries(used_pools) = 0
    /\ frame_count < workload.frames
    /\ LET id == frame_count + 1
           new_pending_frame ==
               [id |-> id,
                query_pools |-> used_pools,
                closed_scope_by_parent_handle |-> GroupByParent(closed_scopes),
                mapped_buffers |-> 0]
           size == SizeAfterFrame(size_for_new_query_pools,
                                  NumUsedQueries(used_pools))
           evict == MustEvict(pending_frames, settings.max_num_pending_frames)
           k == EvictedIndex(pending_frames)
           dropped_frame == pending_frames[k]
           kept == IF evict
                   THEN SubSeq(pending_frames, 1, k - 1)
                          \o SubSeq(pending_frames, k + 1, Len(pending_frames))
                   ELSE pending_frames
           r == IF evict
                THEN reset_and_cache_unused_query_pools(
                         dropped_frame.query_pools, size,
                         settings.enable_timer_scopes)
                ELSE [pools |-> pools,
                      frame_unused_pools |-> frame_unused_pools]
           aborted == IF evict
                      THEN AbortMappings(callbacks, dropped_frame.query_pools)
                      ELSE callbacks
       IN  /\ size_for_new_query_pools' = size
           /\ used_pools' = <<>>
           /\ closed_scopes' = LeftInChannel(closed_scopes)
           /\ pools' = r.pools
           /\ frame_unused_pools' = r.frame_unused_pools
           /\ dropped' = IF evict THEN dropped \cup {dropped_frame.id}
                         ELSE dropped
           /\ callbacks' = aborted \cup
                 {[frame |-> id, pool |-> used_pools[i]]
                    : i \in 1..Len(used_pools)}
           /\ pending_frames' = Append(kept, new_pending_frame)
           /\ panicked' =
                 IF Len(kept) + 1 <= settings.max_num_pending_frames
                 THEN "none"
                 ELSE PendingFramesAssertion
           /\ frame_count' = id
           /\ begun_in_frame' = 0
           /\ frame_log' = Append(frame_log,
                                  [closed |-> closed_log,
                                   discarded |-> discarded,
                                   aborted_mappings |->
                                       Cardinality(callbacks \ aborted),
                                   alloc |-> [used |-> Capacities(used_pools),
                                              cached |-> Capacities(frame_unused_pools),
                                              size |-> size]])
           /\ closed_log' = <<>>
           /\ discarded' = 0
           /\ last_call' = [op |-> "end_frame", result |-> "Ok", value |-> id]

\* GpuProfiler::end_frame
EndFrame ==
    /\ created
    /\ panicked = "none"
    /\ \/ EndFrameUnclosedScopes
       \/ EndFrameUnresolvedQueries
       \/ EndFrameOk
    /\ UNCHANGED <<created, settings, unused_pools, num_open_scopes,
                   next_scope_handle, open_scopes, device_features, returned,
                   begun_total, settings_changes, workload, threads,
                   debug_groups>>

\* A counter that all frames share.
CountsFor_AnyFrame(cb, frame) == TRUE

\* Whether the callback cb holds the mapped_buffers counter of a frame: each
\* callback gets a clone of the Arc of the frame it was made for.
CountsFor(cb, frame) == frame.id = cb.frame

\* The completion callback passed to map_async in end_frame, called with Ok.
MapCallback(cb) ==
    /\ panicked = "none"
    /\ cb \in callbacks
    /\ callbacks' = callbacks \ {cb}
    /\ pending_frames' =
          [i \in 1..Len(pending_frames) |->
              IF CountsFor(cb, pending_frames[i])
              THEN [pending_frames[i] EXCEPT !.mapped_buffers = @ + 1]
              ELSE pending_frames[i]]
    /\ last_call' = [op |-> "map_callback", result |-> "Ok",
                     value |-> cb.frame]
    /\ UNCHANGED <<created, settings, unused_pools, used_pools,
                   frame_unused_pools, closed_scopes, num_open_scopes,
                   next_scope_handle, size_for_new_query_pools, pools,
                   open_scopes, device_features, panicked, returned, dropped,
                   frame_count, begun_in_frame, begun_total, closed_log,
                   frame_log, discarded, settings_changes, workload, threads,
                   debug_groups>>

(* ------------------------------------------------------------------ *)
(* Result reconstruction                                                *)
(* ------------------------------------------------------------------ *)
\* What process_timings_recursive does with a scope that has no query:
\* TRUE when it goes on to look at the scopes nested in it.
VisitsChildrenOfUntimed == FALSE

RECURSIVE process_timings_recursive(_, _)
RECURSIVE ProcessScopes(_, _, _)

\* GpuProfiler::process_timings_recursive: the results for parent_handle and
\* the map after the call (visited entries are removed from it).
process_timings_recursive(map, parent_handle) ==
    IF parent_handle \notin DOMAIN map
    THEN [results |-> <<>>, map |-> map]
    ELSE ProcessScopes([h \in DOMAIN map \ {parent_handle} |-> map[h]],
                       map[parent_handle], <<>>)

\* The filter_map over scopes_with_same_parent, front to back.
ProcessScopes(map, scopes, acc) ==
    IF scopes = <<>>
    THEN [results |-> acc, map |-> map]
    ELSE LET scope == Head(scopes)
         IN  IF scope.query = NoQuery
             THEN IF VisitsChildrenOfUntimed
                  THEN LET nested == process_timings_recursive(map, scope.handle)
                       IN  ProcessScopes(nested.map, Tail(scopes),
                                         acc \o nested.results)
                  ELSE ProcessScopes(map, Tail(scopes), acc)
             ELSE LET offset == scope.query.start_query_idx * QUERY_SIZE
                      read_buffer == pools[scope.query.pool].read_buffer
                      nested == process_timings_recursive(map, scope.handle)
                      result == [label |-> scope.label,
                                 pool |-> scope.query.pool,
                                 start_query_idx |-> scope.query.start_query_idx,
                                 start_raw |-> BufferRead(read_buffer, offset),
                                 end_raw |-> BufferRead(read_buffer,
                                                        offset + QUERY_SIZE),
                                 nested_scopes |-> nested.results]
                  IN  ProcessScopes(nested.map, Tail(scopes),
                                    Append(acc, result))

\* The pools that a scope left in the map, or held elsewhere, still refers to.
PoolsReferenced(map) ==
    UNION {{map[h][i].query.pool : i \in 1..Len(map[h])} : h \in DOMAIN map}
      \cup {sc.query.pool : sc \in open_scopes}
      \cup {closed_scopes[i].query.pool : i \in 1..Len(closed_scopes)}

\* process_finished_frame without the test of the mapped buffers.
AllBuffersMapped_Unchecked(frame) ==
    frame.mapped_buffers <= Len(frame.query_pools)

\* A test that waits for one completion at least.
AllBuffersMapped_AfterACompletion(frame) ==
    /\ frame.mapped_buffers = Len(frame.query_pools)
    /\ frame.mapped_buffers > 0

\* The test process_finished_frame makes on the oldest pending frame.
AllBuffersMapped(frame) ==
    frame.mapped_buffers = Len(frame.query_pools)

\* The first pending frame whose buffers are all mapped, wherever it stands.
ExaminedFrame_FirstMapped(frames) ==
    IF \E i \in 1..Len(frames) : AllBuffersMapped(frames[i])
    THEN CHOOSE i \in 1..Len(frames) :
             /\ AllBuffersMapped(frames[i])
             /\ \A j \in 1..(i - 1) : ~AllBuffersMapped(frames[j])
    ELSE 1

\* The pending frame process_finished_frame looks at and removes:
\* pending_frames.first_mut(), then pending_frames.remove(0).
ExaminedFrame(frames) == 1

\* GpuProfiler::process_finished_frame
ProcessFinishedFrame ==
    /\ created
    /\ panicked = "none"
    /\ IF pending_frames = <<>>
       THEN /\ last_call' = [op |-> "process_finished_frame",
                             result |-> "None", value |-> 0]
            /\ UNCHANGED <<pending_frames, frame_unused_pools, pools,
                           callbacks, panicked, returned>>
       ELSE
       LET at == ExaminedFrame(pending_frames)
           frame == pending_frames[at]
       IN  IF ~AllBuffersMapped(frame)
           THEN /\ last_call' = [op |-> "process_finished_frame",
                                 result |-> "None", value |-> 0]
                /\ UNCHANGED <<pending_frames, frame_unused_pools, pools,
                               callbacks, panicked, returned>>
           ELSE
           LET timings == process_timings_recursive(
                              frame.closed_scope_by_parent_handle,
                              ROOT_SCOPE_HANDLE)
               r == reset_and_cache_unused_query_pools(
                        frame.query_pools, size_for_new_query_pools,
                        settings.enable_timer_scopes)
           IN  IF Range(frame.query_pools) \cap PoolsReferenced(timings.map) # {}
               THEN /\ panicked' = "Pool still in use"
                    /\ last_call' = [op |-> "process_finished_frame",
                                     result |-> "panic", value |-> frame.id]
                    /\ UNCHANGED <<pending_frames, frame_unused_pools, pools,
                                   callbacks, returned>>
               ELSE /\ pending_frames' =
                          SubSeq(pending_frames, 1, at - 1)
                            \o SubSeq(pending_frames, at + 1,
                                      Len(pending_frames))
                    /\ pools' = r.pools
                    /\ frame_unused_pools' = r.frame_unused_pools
                    /\ callbacks' = AbortMappings(callbacks, frame.query_pools)
                    /\ returned' = Append(returned,
                                          [frame |-> frame.id,
                                           results |-> timings.results,
                                           polled_from |->
                                               IF returned = <<>>
                                               THEN frame_count
                                               ELSE returned[1].polled_from])
                    /\ last_call' = [op |-> "process_finished_frame",
                                     result |-> "Some", value |-> frame.id]
                    /\ UNCHANGED panicked
    /\ UNCHANGED <<created, settings, unused_pools, used_pools, closed_scopes,
                   num_open_scopes, next_scope_handle,
                   size_for_new_query_pools, open_scopes, device_features,
                   dropped, frame_count, begun_in_frame, begun_total,
                   closed_log, frame_log, discarded, settings_changes, workload, threads,
                   debug_groups>>

\* change_settings with the two checks in the other order: the settings are
\* validated before the open scopes are looked at.
ChangeSettings_ValidatesFirst(s) ==
    /\ created
    /\ panicked = "none"
    /\ IF validate(s) # "Ok"
       THEN /\ last_call' = [op |-> "change_settings",
                             result |-> validate(s),
                             value |-> s.max_num_pending_frames]
            /\ UNCHANGED <<settings, unused_pools, settings_changes>>
       ELSE IF num_open_scopes > 0
       THEN /\ last_call' = [op |-> "change_settings",
                             result |-> "HasOpenScopes",
                             value |-> s.max_num_pending_frames]
            /\ UNCHANGED <<settings, unused_pools, settings_changes>>
       ELSE /\ settings_changes < workload.settings_changes
            /\ unused_pools' = IF ~s.enable_timer_scopes THEN <<>>
                               ELSE unused_pools
            /\ settings' = s
            /\ settings_changes' = settings_changes + 1
            /\ last_call' = [op |-> "change_settings", result |-> "Ok",
                             value |-> s.max_num_pending_frames]
    /\ UNCHANGED <<created, used_pools, frame_unused_pools, closed_scopes,
                   pending_frames, num_open_scopes, next_scope_handle,
                   size_for_new_query_pools, pools, open_scopes, callbacks,
                   device_features, panicked, returned, dropped, frame_count,
                   begun_in_frame, begun_total, closed_log, frame_log, discarded,
                   workload, threads,
                   debug_groups>>

\* GpuProfiler::change_settings
ChangeSettings(s) ==
    /\ created
    /\ panicked = "none"
    /\ IF num_open_scopes > 0
       THEN /\ last_call' = [op |-> "change_settings",
                             result |-> "HasOpenScopes",
                             value |-> s.max_num_pending_frames]
            /\ UNCHANGED <<settings, unused_pools, settings_changes>>
       ELSE IF validate(s) # "Ok"
       THEN /\ last_call' = [op |-> "change_settings",
                             result |-> validate(s),
                             value |-> s.max_num_pending_frames]
            /\ UNCHANGED <<settings, unused_pools, settings_changes>>
       ELSE /\ settings_changes < workload.settings_changes
            /\ unused_pools' = IF ~s.enable_timer_scopes THEN <<>>
                               ELSE unused_pools
            /\ settings' = s
            /\ settings_changes' = settings_changes + 1
            /\ last_call' = [op |-> "change_settings", result |-> "Ok",
                             value |-> s.max_num_pending_frames]
    /\ UNCHANGED <<created, used_pools, frame_unused_pools, closed_scopes,
                   pending_frames, num_open_scopes, next_scope_handle,
                   size_for_new_query_pools, pools, open_scopes, callbacks,
                   device_features, panicked, returned, dropped, frame_count,
                   begun_in_frame, begun_total, closed_log, frame_log, discarded,
                   workload, threads,
                   debug_groups>>

Next ==
    \/ \E s \in SettingsOffered : New(s)
    \/ \E s \in ChangesOffered : ChangeSettings(s)
    \/ \E parent \in ParentChoices, is_pass \in BOOLEAN : BeginScope(parent, is_pass)
    \/ \E parent \in ParentChoices : BeginPassScope(parent)
    \/ \E scope \in open_scopes : EndScope(scope)
    \/ ResolveQueries
    \/ EndFrame
    \/ \E cb \in callbacks : MapCallback(cb)
    \/ ProcessFinishedFrame

Spec == Init /\ [][Next]_vars

\* The owner keeps servicing mapping completions and keeps polling.
Fairness ==
    /\ WF_vars(\E cb \in callbacks : MapCallback(cb))
    /\ WF_vars(ProcessFinishedFrame)

\* The calls of an owner that never calls change_settings and lets the
\* profiler write the timestamps itself (no begin_pass_scope).
FrameNext ==
    \/ \E s \in SettingsOffered : New(s)
    \/ \E parent \in ParentChoices, is_pass \in BOOLEAN : BeginScope(parent, is_pass)
    \/ \E scope \in open_scopes : EndScope(scope)
    \/ ResolveQueries
    \/ EndFrame
    \/ \E cb \in callbacks : MapCallback(cb)
    \/ ProcessFinishedFrame

\* Runs that end one frame with many scopes.
TreeInit ==
    /\ Init
    /\ workload.scopes_per_frame > 1

TreeSpec == TreeInit /\ [][FrameNext]_vars

\* Runs with frames of at most one scope each and a pending-frame bound that
\* is set once, with an owner that services completions and polls.
PipelineInit ==
    /\ Init
    /\ workload.scopes_per_frame = 1
    /\ workload.settings_changes = 0

PipelineSpec == PipelineInit /\ [][FrameNext]_vars /\ Fairness

\* Runs whose owner changes the settings between frames.
ReconfigInit ==
    /\ Init
    /\ workload.settings_changes > 0

ReconfigSpec == ReconfigInit /\ [][Next]_vars

(* ------------------------------------------------------------------ *)
(* Scopes recorded by several threads                                   *)
(* ------------------------------------------------------------------ *)
\* The scopes the owner records alone before the workers start: they leave
\* room for one more pair in a pool of MIN_CAPACITY queries.
Prefill == MIN_CAPACITY \div 2 - 1

\* The scopes a thread records in each frame: the workers per_thread each,
\* the owner the rest of the frame.
Quota(t) == IF t = 0
            THEN workload.scopes_per_frame - NumThreads * workload.per_thread
            ELSE workload.per_thread

\* One frame: the owner's scopes, then the workers' scopes on encoders of
\* their own, all at top level.
ThreadedWorkload ==
    [scopes |-> Prefill + NumThreads * ScopesPerThread,
     scopes_per_frame |-> Prefill + NumThreads * ScopesPerThread,
     frames |-> 1, settings_changes |-> 0, max_pending |-> 1,
     pass_scopes |-> FALSE, devices |-> {{TIMESTAMP_QUERY}}, debug_groups |-> {TRUE},
     per_thread |-> ScopesPerThread]

\* The state before GpuProfiler::new for the callers of workload w.
InitWith(w) ==
    /\ created = FALSE
    /\ settings = DefaultSettings
    /\ unused_pools = <<>>
    /\ used_pools = <<>>
    /\ frame_unused_pools = <<>>
    /\ closed_scopes = <<>>
    /\ pending_frames = <<>>
    /\ num_open_scopes = 0
    /\ next_scope_handle = 0
    /\ size_for_new_query_pools = MIN_CAPACITY
    /\ pools = [p \in PoolIds |-> NoPool]
    /\ open_scopes = {}
    /\ callbacks = {}
    /\ panicked = "none"
    /\ last_call = [op |-> "none", result |-> "none", value |-> 0]
    /\ returned = <<>>
    /\ dropped = {}
    /\ frame_count = 0
    /\ begun_in_frame = 0
    /\ begun_total = 0
    /\ closed_log = <<>>
    /\ frame_log = <<>>
    /\ discarded = 0
    /\ settings_changes = 0
    /\ workload = w
    /\ device_features \in w.devices
    /\ threads = [t \in Threads |-> IdleThread]
    /\ debug_groups = NoDebugGroups

ThreadedInit == InitWith(ThreadedWorkload)

\* compare_exchange_weak that stores without comparing.
CasSucceeds_Blind(current, expected) == current >= expected

\* AtomicU32::compare_exchange_weak(expected, new): whether it stores.
CasSucceeds(current, expected) == current = expected

\* The GpuTimerScope begin_scope returns to thread t for a query.
ThreadScope(t, query) ==
    [label |-> threads[t].label,
     query |-> IF query = NoQuery THEN NoQuery
               ELSE [query EXCEPT !.usage_state = "OnlyStartWritten"],
     handle |-> threads[t].handle,
     parent_handle |-> ROOT_SCOPE_HANDLE,
     has_debug_group |-> settings.enable_debug_groups,
     parent_label |-> 0]

\* begin_scope_internal on thread t, first statement:
\* num_open_scopes.fetch_add(1).
ThreadBeginScope(t) ==
    /\ created
    /\ panicked = "none"
    /\ threads[t].pc = "idle"
    /\ frame_count < workload.frames
    /\ threads[t].done < Quota(t) * (frame_count + 1)
    /\ t # 0 => threads[0].done = Quota(0) * (frame_count + 1)
    /\ num_open_scopes' = fetch_add(num_open_scopes, 1)
    /\ threads' = [threads EXCEPT ![t].pc = "handle"]
    /\ UNCHANGED <<created, settings, unused_pools, used_pools,
                   frame_unused_pools, closed_scopes, pending_frames,
                   next_scope_handle, size_for_new_query_pools, pools,
                   open_scopes, callbacks, device_features, panicked,
                   last_call, returned, dropped, frame_count, begun_in_frame,
                   begun_total, closed_log, frame_log, discarded,
                   settings_changes, workload,
                   debug_groups>>

\* next_scope_tree_handle on thread t, a fetch_add that returns
\* ROOT_SCOPE_HANDLE: the loop goes round.
ThreadSkipHandle(t) ==
    /\ panicked = "none"
    /\ threads[t].pc = "handle"
    /\ SkipsHandle(HandleFetchAdd(next_scope_handle).handle)
    /\ next_scope_handle' = HandleFetchAdd(next_scope_handle).next
    /\ UNCHANGED <<created, settings, unused_pools, used_pools,
                   frame_unused_pools, closed_scopes, pending_frames,
                   num_open_scopes, size_for_new_query_pools, pools,
                   open_scopes, callbacks, device_features, panicked,
                   last_call, returned, dropped, frame_count, begun_in_frame,
                   begun_total, closed_log, frame_log, discarded,
                   settings_changes, workload, threads, debug_groups>>

\* begin_scope_internal on thread t: the fetch_add of next_scope_tree_handle
\* that returns the handle, then the test whether a query is reserved;
\* without one, begin_scope returns the scope.
\* The scopes are labelled in the order of their handles.
ThreadNextHandle(t) ==
    /\ panicked = "none"
    /\ threads[t].pc = "handle"
    /\ ~SkipsHandle(HandleFetchAdd(next_scope_handle).handle)
    /\ LET h == HandleFetchAdd(next_scope_handle)
           wants_query == /\ settings.enable_timer_scopes
                          /\ timestamp_write_supported(FALSE, device_features)
           with_handle == [threads EXCEPT ![t].handle = h.handle,
                                          ![t].label = begun_total + 1]
       IN  /\ next_scope_handle' = h.next
           /\ IF wants_query
              THEN /\ threads' = [with_handle EXCEPT ![t].pc = "read"]
                   /\ UNCHANGED <<open_scopes, debug_groups>>
              ELSE /\ threads' = [with_handle EXCEPT ![t].pc = "open"]
                   /\ open_scopes' = open_scopes \cup
                         {[ThreadScope(t, NoQuery) EXCEPT
                              !.handle = h.handle, !.label = begun_total + 1]}
                   /\ debug_groups' =
                         IF settings.enable_debug_groups
                         THEN push_debug_group(debug_groups, begun_total + 1)
                         ELSE debug_groups
    /\ begun_in_frame' = begun_in_frame + 1
    /\ begun_total' = begun_total + 1
    /\ last_call' = [op |-> "begin_scope", result |-> "Ok",
                     value |-> begun_total + 1]
    /\ UNCHANGED <<created, settings, unused_pools, used_pools,
                   frame_unused_pools, closed_scopes, pending_frames,
                   num_open_scopes, size_for_new_query_pools, pools, callbacks,
                   device_features, panicked, returned, dropped,
                   frame_count, closed_log,
                   frame_log, discarded, settings_changes, workload>>

\* reserve_query_pair on thread t, under the read lock: used_pools.last()
\* and the first load of num_used_queries in try_reserve_query_pair.
ThreadReadLast(t) ==
    /\ panicked = "none"
    /\ threads[t].pc = "read"
    /\ IF used_pools = <<>>
       THEN threads' = [threads EXCEPT ![t].pc = "write"]
       ELSE LET last == used_pools[Len(used_pools)]
            IN  threads' = [threads EXCEPT
                               ![t].pc = "cas",
                               ![t].pool = last,
                               ![t].num_used_queries = pools[last].num_used_queries]
    /\ UNCHANGED <<created, settings, unused_pools, used_pools,
                   frame_unused_pools, closed_scopes, pending_frames,
                   num_open_scopes, next_scope_handle, size_for_new_query_pools,
                   pools, open_scopes, callbacks, device_features, panicked,
                   last_call, returned, dropped, frame_count, begun_in_frame,
                   begun_total, closed_log, frame_log, discarded,
                   settings_changes, workload,
                   debug_groups>>

\* try_reserve_query_pair on thread t, one turn of the loop under the read
\* lock: out of capacity (None, the read lock is released), the
\* compare-exchange stores (Some(pair), begin_scope returns the scope), or it
\* fails and the loop goes on with the value it found.
ThreadCompareExchange(t) ==
    /\ panicked = "none"
    /\ threads[t].pc = "cas"
    /\ LET p == threads[t].pool
           num_used_queries == threads[t].num_used_queries
           seen == [pools[p] EXCEPT !.num_used_queries = num_used_queries]
       IN  IF ~CanReserve(seen)
           THEN /\ threads' = [threads EXCEPT ![t].pc = "write"]
                /\ UNCHANGED <<pools, open_scopes, debug_groups>>
           ELSE IF CasSucceeds(pools[p].num_used_queries, num_used_queries)
           THEN /\ pools' = [pools EXCEPT
                                ![p].num_used_queries = NextUnused(num_used_queries)]
                /\ open_scopes' = open_scopes \cup
                                     {ThreadScope(t, ReservedPair(p, seen))}
                /\ debug_groups' =
                      IF settings.enable_debug_groups
                      THEN push_debug_group(debug_groups, threads[t].label)
                      ELSE debug_groups
                /\ threads' = [threads EXCEPT ![t].pc = "open"]
           ELSE /\ threads' = [threads EXCEPT
                                  ![t].num_used_queries = pools[p].num_used_queries]
                /\ UNCHANGED <<pools, open_scopes, debug_groups>>
    /\ UNCHANGED <<created, settings, unused_pools, used_pools,
                   frame_unused_pools, closed_scopes, pending_frames,
                   num_open_scopes, next_scope_handle, size_for_new_query_pools,
                   callbacks, device_features, panicked, last_call, returned,
                   dropped, frame_count, begun_in_frame, begun_total, closed_log,
                   frame_log, discarded, settings_changes, workload>>

\* reserve_query_pair on thread t, under the write lock (no thread holds the
\* read lock): the last pool is tried again, else a pool is taken from the
\* cache or created and pushed; begin_scope returns the scope.
ThreadAddPool(t) ==
    /\ panicked = "none"
    /\ threads[t].pc = "write"
    /\ \A u \in Threads : threads[u].pc # "cas"
    /\ NeedsFreshPool => FreePoolIds # {}
    /\ LET fresh == IF FreePoolIds = {} THEN 0
                    ELSE CHOOSE p \in FreePoolIds : \A q \in FreePoolIds : p <= q
           r == reserve_query_pair(fresh)
       IN  IF r.failed
           THEN /\ panicked' = FreshPoolExpectation
                /\ UNCHANGED <<pools, used_pools, frame_unused_pools,
                               open_scopes, threads, debug_groups>>
           ELSE /\ pools' = r.pools
                /\ used_pools' = r.used_pools
                /\ frame_unused_pools' = r.frame_unused_pools
                /\ open_scopes' = open_scopes \cup {ThreadScope(t, r.pair)}
                /\ debug_groups' =
                      IF settings.enable_debug_groups
                      THEN push_debug_group(debug_groups, threads[t].label)
                      ELSE debug_groups
                /\ threads' = [threads EXCEPT ![t].pc = "open"]
                /\ UNCHANGED panicked
    /\ UNCHANGED <<created, settings, unused_pools, closed_scopes,
                   pending_frames, num_open_scopes, next_scope_handle,
                   size_for_new_query_pools, callbacks, device_features,
                   last_call, returned, dropped, frame_count, begun_in_frame,
                   begun_total, closed_log, frame_log, discarded,
                   settings_changes, workload>>

\* end_scope with the two statements the other way round.
SendsBeforeCounting_Swapped == FALSE

\* end_scope: closed_scope_sender.send(scope) is the statement before
\* num_open_scopes.fetch_sub(1).
SendsBeforeCounting == TRUE

\* Where a thread stands in end_scope before and after each of the two
\* statements; end_scope returns after the second.
BeforeSend == IF SendsBeforeCounting THEN "open" ELSE "counted"
AfterSend == IF SendsBeforeCounting THEN "sent" ELSE "idle"
BeforeCount == IF SendsBeforeCounting THEN "sent" ELSE "open"
AfterCount == IF SendsBeforeCounting THEN "idle" ELSE "counted"

\* end_scope on thread t up to closed_scope_sender.send(scope).
ThreadSendClosed(t) ==
    /\ panicked = "none"
    /\ threads[t].pc = BeforeSend
    /\ LET scope == ScopeWithLabel(threads[t].label)
           closed == IF scope.query = NoQuery THEN scope
                     ELSE [scope EXCEPT !.query.usage_state =
                                            "BothStartAndEndWritten"]
       IN  /\ open_scopes' = open_scopes \ {scope}
           /\ debug_groups' =
                 IF PopsDebugGroup(scope)
                 THEN pop_debug_group(debug_groups, scope.label)
                 ELSE debug_groups
           /\ closed_scopes' = Append(closed_scopes, closed)
           /\ closed_log' = Append(closed_log,
                                   ClosedLogEntry(scope))
           /\ last_call' = [op |-> "end_scope", result |-> "Ok",
                            value |-> scope.label,
                            writes |-> EndTimestampWrites(scope.query)]
    /\ threads' = [threads EXCEPT
                       ![t].pc = AfterSend,
                       ![t].done = IF AfterSend = "idle" THEN @ + 1 ELSE @]
    /\ UNCHANGED <<created, settings, unused_pools, used_pools,
                   frame_unused_pools, pending_frames, num_open_scopes,
                   next_scope_handle, size_for_new_query_pools, pools,
                   callbacks, device_features, panicked, returned, dropped,
                   frame_count, begun_in_frame, begun_total, frame_log,
                   discarded, settings_changes, workload>>

\* end_scope on thread t, last statement: num_open_scopes.fetch_sub(1).
ThreadCountClosed(t) ==
    /\ panicked = "none"
    /\ threads[t].pc = BeforeCount
    /\ num_open_scopes' = fetch_sub(num_open_scopes, 1)
    /\ threads' = [threads EXCEPT
                       ![t].pc = AfterCount,
                       ![t].done = IF AfterCount = "idle" THEN @ + 1 ELSE @]
    /\ UNCHANGED <<created, settings, unused_pools, used_pools,
                   frame_unused_pools, closed_scopes, pending_frames,
                   next_scope_handle, size_for_new_query_pools, pools,
                   open_scopes, callbacks, device_features, panicked,
                   last_call, returned, dropped, frame_count, begun_in_frame,
                   begun_total, closed_log, frame_log, discarded,
                   settings_changes, workload,
                   debug_groups>>

\* The calls that take &mut self: the owner makes them once every thread
\* has recorded its scopes and has been joined.
OwnerMayCall ==
    \A t \in Threads :
        /\ threads[t].pc = "idle"
        /\ threads[t].done = Quota(t) * Min(frame_count + 1, workload.frames)

ThreadedNext ==
    \/ \E s \in SettingsOffered : New(s)
    \/ \E t \in Threads : ThreadBeginScope(t)
    \/ \E t \in Threads : ThreadSkipHandle(t)
    \/ \E t \in Threads : ThreadNextHandle(t)
    \/ \E t \in Threads : ThreadReadLast(t)
    \/ \E t \in Threads : ThreadCompareExchange(t)
    \/ \E t \in Threads : ThreadAddPool(t)
    \/ \E t \in Threads : ThreadSendClosed(t)
    \/ \E t \in Threads : ThreadCountClosed(t)
    \/ OwnerMayCall /\ ResolveQueries
    \/ OwnerMayCall /\ EndFrame
    \/ OwnerMayCall /\ \E cb \in callbacks : MapCallback(cb)
    \/ OwnerMayCall /\ ProcessFinishedFrame

ThreadedSpec == ThreadedInit /\ [][ThreadedNext]_vars

\* Frames of half as many scopes as the counter has values, on a device
\* without timestamp queries: the owner records all but the last scopes of a
\* frame, then each worker records one. The workers of the second frame take
\* their handles where the counter wraps around.
HandleWorkload ==
    [scopes |-> (LongFrames - 1) * (HandleModulus \div 2),
     scopes_per_frame |-> HandleModulus \div 2,
     frames |-> LongFrames - 1, settings_changes |-> 0,
     max_pending |-> 1, pass_scopes |-> FALSE,
     devices |-> {{}}, debug_groups |-> {TRUE}, per_thread |-> 1]

HandleInit == InitWith(HandleWorkload)

\* The calls of ThreadedNext that such a run makes: no scope holds a query.
HandleNext ==
    \/ \E s \in SettingsOffered : New(s)
    \/ \E t \in Threads : ThreadBeginScope(t)
    \/ \E t \in Threads : ThreadSkipHandle(t)
    \/ \E t \in Threads : ThreadNextHandle(t)
    \/ \E t \in Threads : ThreadSendClosed(t)
    \/ \E t \in Threads : ThreadCountClosed(t)
    \/ OwnerMayCall /\ EndFrame
    \/ OwnerMayCall /\ ProcessFinishedFrame

HandleSpec == HandleInit /\ [][HandleNext]_vars

(* ------------------------------------------------------------------ *)
(* Settings changed between the scopes of a frame                       *)
(* ------------------------------------------------------------------ *)
\* One frame with a scope before and after every change of settings, on
\* encoders and passes of a device without the pass timestamp feature.
ToggleWorkload ==
    [scopes |-> MaxSettingsChanges + 1,
     scopes_per_frame |-> MaxSettingsChanges + 1,
     frames |-> 1, settings_changes |-> MaxSettingsChanges, max_pending |-> 1,
     pass_scopes |-> TRUE, devices |-> {{TIMESTAMP_QUERY}}, debug_groups |-> {TRUE}]

ToggleInit == InitWith(ToggleWorkload)

ToggleSpec == ToggleInit /\ [][Next]_vars

(* ------------------------------------------------------------------ *)
(* Frames that need more than one pool                                  *)
(* ------------------------------------------------------------------ *)
\* The scopes of a frame that fills a pool of MIN_CAPACITY queries, a second
\* one, and takes a pair from a third.
FullFrame == MIN_CAPACITY + 1

\* Frames of up to FullFrame top-level scopes, recorded one after the other,
\* of which one may be pending.
AllocWorkload ==
    [scopes |-> (LongFrames - 1) * FullFrame, scopes_per_frame |-> FullFrame,
     frames |-> LongFrames - 1, settings_changes |-> 0,
     max_pending |-> 1, pass_scopes |-> FALSE,
     devices |-> {{TIMESTAMP_QUERY}}, debug_groups |-> {TRUE}]

AllocInit == InitWith(AllocWorkload)

\* The scopes of a frame that fills one pool of MIN_CAPACITY queries and
\* takes a pair from a second.
HalfFrame == MIN_CAPACITY \div 2 + 1

\* The owner resolves and ends a frame after HalfFrame or FullFrame scopes.
FrameRecorded ==
    /\ open_scopes = {}
    /\ begun_in_frame \in {HalfFrame, FullFrame}

\* The owner polls the device (which runs the mapping callbacks) and the
\* profiler between frames and before a scope that needs another pool.
PollPoint ==
    /\ open_scopes = {}
    /\ begun_in_frame \in {0, HalfFrame - 1, FullFrame - 1}

\* The calls of an owner that ends each scope before it begins the next.
AllocNext ==
    \/ \E s \in SettingsOffered : New(s)
    \/ open_scopes = {} /\ BeginScope(0, FALSE)
    \/ \E scope \in open_scopes : EndScope(scope)
    \/ FrameRecorded /\ ResolveQueries
    \/ FrameRecorded /\ EndFrame
    \/ PollPoint /\ \E cb \in callbacks : MapCallback(cb)
    \/ PollPoint /\ ProcessFinishedFrame

AllocSpec == AllocInit /\ [][AllocNext]_vars

\* The same frames with the settings changed between them.
ReclaimWorkload ==
    [AllocWorkload EXCEPT !.settings_changes = MaxSettingsChanges]

ReclaimInit == InitWith(ReclaimWorkload)

\* The owner changes the settings before the first scope of a frame, while
\* the frame before awaits its results.
BetweenFrames ==
    /\ open_scopes = {}
    /\ begun_in_frame = 0
    /\ pending_frames # <<>>

\* The owner resolves and ends a frame after FullFrame scopes.
LargeFrameRecorded ==
    /\ open_scopes = {}
    /\ begun_in_frame = FullFrame

\* The owner polls between frames and before the last scope of a frame.
ReclaimPoint ==
    /\ open_scopes = {}
    /\ begun_in_frame \in {0, FullFrame - 1}

ReclaimNext ==
    \/ \E s \in SettingsOffered : New(s)
    \/ BetweenFrames /\ \E s \in ChangesOffered : ChangeSettings(s)
    \/ open_scopes = {} /\ BeginScope(0, FALSE)
    \/ \E scope \in open_scopes : EndScope(scope)
    \/ LargeFrameRecorded /\ ResolveQueries
    \/ LargeFrameRecorded /\ EndFrame
    \/ ReclaimPoint /\ \E cb \in callbacks : MapCallback(cb)
    \/ ReclaimPoint /\ ProcessFinishedFrame

ReclaimSpec == ReclaimInit /\ [][ReclaimNext]_vars

\* Frames of HalfFrame scopes each, every frame returned before the next
\* one is recorded.
SteadyWorkload ==
    [scopes |-> LongFrames * HalfFrame, scopes_per_frame |-> HalfFrame,
     frames |-> LongFrames, settings_changes |-> 0,
     max_pending |-> 1, pass_scopes |-> FALSE,
     devices |-> {{TIMESTAMP_QUERY}}, debug_groups |-> {TRUE}]

SteadyInit == InitWith(SteadyWorkload)

\* The owner waits for the results of a frame before it records the next.
NothingPending ==
    /\ open_scopes = {}
    /\ pending_frames = <<>>

SteadyNext ==
    \/ \E s \in SettingsOffered : New(s)
    \/ NothingPending /\ BeginScope(0, FALSE)
    \/ \E scope \in open_scopes : EndScope(scope)
    \/ FrameRecorded /\ ResolveQueries
    \/ FrameRecorded /\ EndFrame
    \/ \E cb \in callbacks : MapCallback(cb)
    \/ pending_frames # <<>> /\ ProcessFinishedFrame

SteadySpec == SteadyInit /\ [][SteadyNext]_vars

(* ------------------------------------------------------------------ *)
(* Debug groups                                                         *)
(* ------------------------------------------------------------------ *)
\* One frame with a scope before and after every change of settings, with
\* debug groups and timer scopes switched on and off, on encoders and passes
\* of a device without the pass timestamp feature.
DebugWorkload ==
    [scopes |-> MaxSettingsChanges + 1,
     scopes_per_frame |-> MaxSettingsChanges + 1,
     frames |-> 1, settings_changes |-> MaxSettingsChanges, max_pending |-> 1,
     pass_scopes |-> TRUE, devices |-> {{TIMESTAMP_QUERY}},
     debug_groups |-> BOOLEAN]

DebugInit == InitWith(DebugWorkload)

\* The calls that record scopes and change settings; the frame is not ended.
DebugNext ==
    \/ \E s \in SettingsOffered : New(s)
    \/ \E s \in ChangesOffered : ChangeSettings(s)
    \/ \E parent \in ParentChoices, is_pass \in BOOLEAN : BeginScope(parent, is_pass)
    \/ \E parent \in ParentChoices : BeginPassScope(parent)
    \/ \E scope \in open_scopes : EndScope(scope)

DebugSpec == DebugInit /\ [][DebugNext]_vars

(* ------------------------------------------------------------------ *)
(* Scopes of another profiler                                           *)
(* ------------------------------------------------------------------ *)
\* A GpuTimerScope that another GpuProfiler has returned: without a query
\* and without a debug group.
ForeignScope ==
    [label |-> 0, query |-> NoQuery, handle |-> 0,
     parent_handle |-> ROOT_SCOPE_HANDLE, has_debug_group |-> FALSE,
     parent_label |-> 0]

\* GpuProfiler::end_scope called while this profiler has no scope open, with
\* a scope it has not begun: the scope is sent to the channel of the active
\* frame and num_open_scopes is decremented; nothing is returned.
EndScopeNoneOpen ==
    /\ created
    /\ panicked = "none"
    /\ num_open_scopes = 0
    /\ closed_scopes' = Append(closed_scopes, ForeignScope)
    /\ num_open_scopes' = fetch_sub(num_open_scopes, 1)
    /\ closed_log' = Append(closed_log,
                            ClosedLogEntry(ForeignScope))
    /\ last_call' = [op |-> "end_scope", result |-> "Ok",
                     value |-> ForeignScope.label,
                     writes |-> EndTimestampWrites(ForeignScope.query)]
    /\ UNCHANGED <<created, settings, unused_pools, used_pools,
                   frame_unused_pools, pending_frames, next_scope_handle,
                   size_for_new_query_pools, pools, open_scopes, callbacks,
                   device_features, panicked, returned, dropped, frame_count,
                   begun_in_frame, begun_total, frame_log, discarded,
                   settings_changes, workload, threads, debug_groups>>

\* The calls of FrameNext of an owner that also holds scopes of another
\* profiler.
ForeignNext ==
    \/ \E s \in SettingsOffered : New(s)
    \/ \E parent \in ParentChoices, is_pass \in BOOLEAN : BeginScope(parent, is_pass)
    \/ \E scope \in open_scopes : EndScope(scope)
    \/ EndScopeNoneOpen
    \/ ResolveQueries
    \/ EndFrame
    \/ \E cb \in callbacks : MapCallback(cb)
    \/ ProcessFinishedFrame

\* The calls of no_open_scope: frames of one scope, ended one after the
\* other.
ForeignWorkload ==
    [scopes |-> LongFrames - 1, scopes_per_frame |-> 1,
     frames |-> LongFrames - 1, settings_changes |-> 0, max_pending |-> 1,
     pass_scopes |-> FALSE, devices |-> {{TIMESTAMP_QUERY}},
     debug_groups |-> {TRUE}]

ForeignInit == InitWith(ForeignWorkload)

ForeignSpec == ForeignInit /\ [][ForeignNext]_vars

(* ------------------------------------------------------------------ *)
(* Mappings that fail                                                   *)
(* ------------------------------------------------------------------ *)
\* The map_async callback of a frame that is still pending, called with Err
\* by the device (the mapping was not cancelled by the profiler): the Err arm
\* of the callback does nothing.
MapCallbackFailed(cb) ==
    /\ panicked = "none"
    /\ cb \in callbacks
    /\ callbacks' = callbacks \ {cb}
    /\ last_call' = [op |-> "map_callback", result |-> "Err",
                     value |-> cb.frame]
    /\ UNCHANGED <<created, settings, unused_pools, used_pools,
                   frame_unused_pools, closed_scopes, pending_frames,
                   num_open_scopes, next_scope_handle,
                   size_for_new_query_pools, pools, open_scopes,
                   device_features, panicked, returned, dropped, frame_count,
                   begun_in_frame, begun_total, closed_log, frame_log,
                   discarded, settings_changes, workload, threads,
                   debug_groups>>

\* The calls of FrameNext on a device whose mappings may fail.
MapFailureNext ==
    \/ \E s \in SettingsOffered : New(s)
    \/ \E parent \in ParentChoices, is_pass \in BOOLEAN : BeginScope(parent, is_pass)
    \/ \E scope \in open_scopes : EndScope(scope)
    \/ ResolveQueries
    \/ EndFrame
    \/ \E cb \in callbacks : MapCallback(cb)
    \/ \E cb \in callbacks : MapCallbackFailed(cb)
    \/ ProcessFinishedFrame

MapFailureSpec == PipelineInit /\ [][MapFailureNext]_vars

(* ------------------------------------------------------------------ *)
(* Properties                                                           *)
(* ------------------------------------------------------------------ *)
PendingIds == {pending_frames[i].id : i \in 1..Len(pending_frames)}
ReturnedIds == {returned[i].frame : i \in 1..Len(returned)}

EndFrameReturned(result) ==
    last_call.op = "end_frame" /\ last_call.result = result

\* The nodes of a result tree in pre-order, each with the label of the node
\* it hangs under (0 for the root).
RECURSIVE TreeEdges(_, _)
TreeEdges(results, parent) ==
    IF results = <<>> THEN <<>>
    ELSE <<[label |-> Head(results).label, parent_label |-> parent]>>
           \o TreeEdges(Head(results).nested_scopes, Head(results).label)
           \o TreeEdges(Tail(results), parent)

\* The scopes ended in a frame, in close order, each with the label of the
\* scope it was begun under.
LogEdges(log) ==
    [j \in 1..Len(log.closed) |->
        [label |-> log.closed[j].label,
         parent_label |-> log.closed[j].parent_label]]

\* The labels of the scopes a pending frame holds.
LabelsInMap(map) ==
    UNION {{map[h][i].label : i \in 1..Len(map[h])} : h \in DOMAIN map}

AllTimed(log) == \A j \in 1..Len(log.closed) : log.closed[j].timed

\* C1: end_frame returns Ok exactly when, at the call, no scope is open and
\* every pool of the active frame has resolved = used; otherwise it returns
\* one of its two errors.
C1_EndFrameBalance ==
    [][last_call'.op = "end_frame" =>
         /\ last_call'.result \in {"Ok", "UnclosedScopes", "UnresolvedQueries"}
         /\ last_call'.result = "Ok" <=>
               /\ num_open_scopes = 0
               /\ \A p \in Range(used_pools) :
                     pools[p].num_resolved_queries = pools[p].num_used_queries
      ]_vars

\* end_frame has succeeded on a frame that used a pool.
C1_Witness ==
    /\ EndFrameReturned("Ok")
    /\ pending_frames # <<>>
    /\ pending_frames[Len(pending_frames)].query_pools # <<>>

\* C2: a frame that end_frame finally accepts holds every scope that was
\* closed since the previous accepted frame, also those closed before an
\* end_frame call that failed with UnresolvedQueries.
C2_RetryKeepsClosedScopes ==
    (EndFrameReturned("Ok") /\ pending_frames # <<>>) =>
        LET frame == pending_frames[Len(pending_frames)]
        IN  LabelsInMap(frame.closed_scope_by_parent_handle)
              = {frame_log[frame.id].closed[j].label :
                    j \in 1..Len(frame_log[frame.id].closed)}

\* C3: an end_frame call that returns UnclosedScopes changes nothing in the
\* profiler, and an end_frame call that directly follows resolve_queries
\* with no scope open succeeds.
C3_UnclosedScopesRecoverable ==
    [][/\ (last_call'.op = "end_frame" /\ last_call'.result = "UnclosedScopes")
            => UNCHANGED <<profiler_state, open_scopes, callbacks>>
       /\ (last_call'.op = "end_frame" /\ last_call.op = "resolve_queries"
             /\ num_open_scopes = 0)
            => last_call'.result = "Ok"
      ]_vars

\* end_frame has just refused a frame that holds a used pool, a closed and
\* an open scope.
C3_Witness ==
    /\ EndFrameReturned("UnclosedScopes")
    /\ used_pools # <<>>
    /\ open_scopes # {}
    /\ closed_scopes # <<>>

\* C4: for a frame whose scopes all have a reserved pair, the returned tree
\* has one node per closed scope, each under the node of the scope it was
\* begun under (top-level scopes at the root), and the nodes below one parent
\* are in the order in which their scopes were closed.
C4_TreeFidelity ==
    \A i \in 1..Len(returned) :
        LET log == frame_log[returned[i].frame]
            edges == TreeEdges(returned[i].results, 0)
        IN  (AllTimed(log) /\ log.discarded = 0) =>
                /\ Len(edges) = Len(log.closed)
                /\ \A p \in 0..begun_total :
                      SelectSeq(edges, LAMBDA e : e.parent_label = p)
                        = SelectSeq(LogEdges(log), LAMBDA e : e.parent_label = p)

\* A returned tree of three timed scopes with a nested scope and two scopes
\* under the same parent.
C4_Witness ==
    \E i \in 1..Len(returned) :
        LET log == frame_log[returned[i].frame]
            edges == TreeEdges(returned[i].results, 0)
        IN  /\ AllTimed(log) /\ log.discarded = 0
            /\ Len(edges) >= 3
            /\ \E j \in 1..Len(edges) : edges[j].parent_label # 0
            /\ \E j, k \in 1..Len(edges) :
                  j # k /\ edges[j].parent_label = edges[k].parent_label

\* The nearest scope with a reserved pair among the scope labelled l and
\* the scopes it was begun under (0: none, the root).
RECURSIVE NearestTimed(_, _)
NearestTimed(log, l) ==
    IF l = 0 \/ ~\E j \in 1..Len(log.closed) : log.closed[j].label = l THEN 0
    ELSE LET e == log.closed[CHOOSE j \in 1..Len(log.closed) :
                                 log.closed[j].label = l]
         IN  IF e.timed THEN l ELSE NearestTimed(log, e.parent_label)

\* C5: process_finished_frame hands out the frame it finds completely
\* mapped, and the tree it returns has exactly the scopes with a reserved
\* pair, each under its nearest ancestor that has one (or at the root).
C5_UntimedScopesTransparent ==
    /\ last_call.op = "process_finished_frame"
          => last_call.result \in {"Some", "None"}
    /\ \A i \in 1..Len(returned) :
          LET log == frame_log[returned[i].frame]
              edges == TreeEdges(returned[i].results, 0)
          IN  log.discarded = 0 =>
                 Range(edges) =
                    {[label |-> log.closed[j].label,
                      parent_label |->
                          NearestTimed(log, log.closed[j].parent_label)] :
                       j \in {k \in 1..Len(log.closed) : log.closed[k].timed}}

\* The bound the profiler was created with, while it has not been changed.
BoundN == settings.max_num_pending_frames

\* C6 as stated: once N+1 frames have been ended under a bound of N and none
\* has been handed out, the one dropped frame is the last one ended.
C6_DropsLastEnded ==
    (created /\ settings_changes = 0 /\ returned = <<>>
       /\ frame_count = BoundN + 1)
        => dropped = {BoundN + 1}

\* C6 (amended): once N+1 frames have been ended under a bound of N and none
\* has been handed out, exactly the N-th frame has been dropped (the newest
\* one queued when the (N+1)-th end_frame ran) and the other N are queued in
\* the order they were ended; every frame that was ended is in the queue,
\* has been handed out by process_finished_frame or has been evicted by a
\* later end_frame; and no frame stays in the queue forever.
C6_EvictionLiveness ==
    /\ [](  (created /\ settings_changes = 0 /\ returned = <<>>
               /\ frame_count = BoundN + 1)
            => /\ dropped = {BoundN}
               /\ [i \in 1..Len(pending_frames) |-> pending_frames[i].id]
                    = [i \in 1..BoundN |-> IF i < BoundN THEN i ELSE BoundN + 1])
    /\ [](\A f \in 1..frame_count :
             f \in PendingIds \/ f \in ReturnedIds \/ f \in dropped)
    /\ \A f \in 1..LongFrames : []<>(f \notin PendingIds)

\* Three frames were ended under a bound of two before any was polled; the
\* second was dropped and the other two have been handed out.
C6_Witness ==
    /\ settings.max_num_pending_frames = 2
    /\ frame_count = 3
    /\ dropped = {2}
    /\ ReturnedIds = {1, 3}
    /\ returned[1].polled_from = 3

\* C7: the frame at the head of the pending queue leaves that place only
\* when process_finished_frame returns it.
C7_HeadStaysUntilReturned ==
    [][(/\ pending_frames # <<>>
        /\ settings.max_num_pending_frames >= 1
        /\ \/ pending_frames' = <<>>
           \/ pending_frames'[1].id # pending_frames[1].id)
         => /\ last_call'.op = "process_finished_frame"
            /\ last_call'.result = "Some"
            /\ last_call'.value = pending_frames[1].id
      ]_vars

C9_PendingWithinBound ==
    /\ created => Len(pending_frames) <= settings.max_num_pending_frames
    /\ panicked # PendingFramesAssertion

\* C10 as stated: new and change_settings answer a bound of zero with
\* InvalidMaxNumPendingFrames and leave everything as it was.
C10_ZeroAlwaysInvalidMax ==
    [][(last_call'.op \in {"new", "change_settings"} /\ last_call'.value = 0)
         => /\ last_call'.result = "InvalidMaxNumPendingFrames"
            /\ UNCHANGED <<created, settings>>
      ]_vars

\* C10 (amended): new answers a bound of zero with InvalidMaxNumPendingFrames
\* and creates nothing; change_settings answers it with HasOpenScopes while a
\* scope is open and with InvalidMaxNumPendingFrames otherwise, and keeps the
\* previous settings; a call of new with a bound of at least one, and a call
\* of change_settings with such a bound while no scope is open, succeeds and
\* installs the settings.
C10_ZeroBoundRejected ==
    [][/\ (last_call'.op = "new" /\ last_call'.value = 0)
            => /\ last_call'.result = "InvalidMaxNumPendingFrames"
               /\ UNCHANGED <<created, settings>>
               /\ ~created'
       /\ (last_call'.op = "new" /\ last_call'.value >= 1)
            => /\ last_call'.result = "Ok"
               /\ created'
               /\ settings'.max_num_pending_frames = last_call'.value
       /\ (last_call'.op = "change_settings" /\ last_call'.value = 0)
            => /\ last_call'.result = IF num_open_scopes > 0
                                      THEN "HasOpenScopes"
                                      ELSE "InvalidMaxNumPendingFrames"
               /\ UNCHANGED settings
       /\ (last_call'.op = "change_settings" /\ last_call'.value >= 1
             /\ num_open_scopes = 0)
            => /\ last_call'.result = "Ok"
               /\ settings'.max_num_pending_frames = last_call'.value
      ]_vars

\* change_settings has refused a bound of zero with
\* InvalidMaxNumPendingFrames while a frame was pending.
C10_Witness ==
    /\ created
    /\ last_call = [op |-> "change_settings",
                    result |-> "InvalidMaxNumPendingFrames", value |-> 0]
    /\ pending_frames # <<>>

\* C11: change_settings returns HasOpenScopes whenever a scope is open, and
\* then leaves the settings, the recycle caches and the pools as they were;
\* it returns Ok exactly when no scope is open and the settings passed are
\* valid, and then the settings passed are the profiler's settings.
C11_ChangeSettingsGuard ==
    [][last_call'.op = "change_settings" =>
         /\ open_scopes # {}
               => /\ last_call'.result = "HasOpenScopes"
                  /\ UNCHANGED <<settings, unused_pools, frame_unused_pools,
                                 pools, pending_frames>>
         /\ last_call'.result = "Ok"
               <=> (open_scopes = {} /\ last_call'.value >= 1)
         /\ last_call'.result = "Ok"
               => settings'.max_num_pending_frames = last_call'.value
      ]_vars

\* change_settings has refused a bound of zero and has refused valid
\* settings while a scope with a reserved pair was open.
C11_Witness ==
    /\ last_call.op = "change_settings"
    /\ last_call.result = "HasOpenScopes"
    /\ \E sc \in open_scopes : sc.query # NoQuery
    /\ used_pools # <<>>

\* Every pool of the active frame has all its used queries resolved.
AllResolved ==
    \A p \in Range(used_pools) :
        pools[p].num_resolved_queries = pools[p].num_used_queries

\* C12: resolve_queries leaves every pool of the active frame resolved, only
\* beginning a scope ends that, and a resolve_queries call made while every
\* pool is resolved (a second call with no scope begun in between) records
\* no command and changes no field of the profiler.
C12_ResolveIdempotent ==
    [][/\ last_call'.op = "resolve_queries"
            => (panicked' = "none" /\ AllResolved')
       /\ (last_call'.op = "resolve_queries" /\ AllResolved)
            => /\ last_call'.value = 0
               /\ UNCHANGED <<profiler_state, open_scopes, callbacks>>
       /\ (AllResolved /\ last_call'.op \notin {"begin_scope", "begin_pass_scope"})
            => AllResolved'
      ]_vars

\* resolve_queries has returned without recording a command although the
\* active frame holds a pool with used queries and a closed scope.
C12_Witness ==
    /\ last_call.op = "resolve_queries"
    /\ last_call.value = 0
    /\ \E p \in Range(used_pools) : pools[p].num_used_queries > 0
    /\ closed_scopes # <<>>

\* The nodes of a result tree in pre-order.
RECURSIVE TreeNodes(_)
TreeNodes(results) ==
    IF results = <<>> THEN <<>>
    ELSE <<Head(results)>> \o TreeNodes(Head(results).nested_scopes)
           \o TreeNodes(Tail(results))

\* Every resolved query of a pool has been resolved once and the read buffer
\* holds its timestamp at its own slot; no other query has been resolved.
ResolvedInPlace(pool) ==
    /\ Len(pool.times_resolved) = pool.num_resolved_queries
    /\ \A i \in 0..(pool.num_resolved_queries - 1) :
          /\ pool.times_resolved[i + 1] = 1
          /\ BufferRead(pool.read_buffer, i * QUERY_SIZE) = TimestampOf(i)

\* C13: however resolve_queries calls are interleaved with the scopes of a
\* frame, each resolved query was resolved once and sits at its own slot of
\* the read buffer; end_frame succeeds when no scope is open and the last
\* reserved pair has been resolved; the pools of a queued frame are fully
\* resolved; a completely mapped frame whose scopes all have a pair is
\* handed out by process_finished_frame, and every node handed out carries
\* the two timestamps of its own pair.
C13_InterleavedResolves ==
    /\ [](/\ \A p \in Range(used_pools) : ResolvedInPlace(pools[p])
          /\ \A i \in 1..Len(pending_frames) :
                \A p \in Range(pending_frames[i].query_pools) :
                    /\ pools[p].num_resolved_queries = pools[p].num_used_queries
                    /\ pools[p].num_used_queries > 0
                    /\ ResolvedInPlace(pools[p])
          /\ \A i \in 1..Len(returned) :
                LET nodes == TreeNodes(returned[i].results)
                IN  \A j \in 1..Len(nodes) :
                       /\ nodes[j].start_raw = TimestampOf(nodes[j].start_query_idx)
                       /\ nodes[j].end_raw = TimestampOf(nodes[j].start_query_idx + 1))
    /\ [][/\ (last_call'.op = "end_frame" /\ open_scopes = {} /\ AllResolved)
                => last_call'.result = "Ok"
          /\ (/\ last_call'.op = "process_finished_frame"
              /\ pending_frames # <<>>
              /\ pending_frames[1].mapped_buffers
                    = Len(pending_frames[1].query_pools)
              /\ AllTimed(frame_log[pending_frames[1].id]))
                => /\ last_call'.result = "Some"
                   /\ last_call'.value = pending_frames[1].id
                   /\ Len(TreeNodes(returned'[Len(returned')].results))
                         = Len(frame_log[pending_frames[1].id].closed)
                            - frame_log[pending_frames[1].id].discarded
         ]_vars

\* resolve_queries has just resolved the second pair of a pool whose first
\* pair an earlier call had resolved, and no scope is open.
C13_Witness ==
    /\ last_call.op = "resolve_queries"
    /\ last_call.value = 2
    /\ open_scopes = {}
    /\ \E p \in Range(used_pools) :
          /\ pools[p].num_used_queries = 4
          /\ pools[p].num_resolved_queries = 4

\* The scopes of the active frame that hold a reserved pair.
ActiveTimedScopes ==
    {sc \in open_scopes \cup Range(closed_scopes) : sc.query # NoQuery}

\* The scopes of a pending frame that hold a reserved pair.
PendingTimedScopes(frame) ==
    LET map == frame.closed_scope_by_parent_handle
    IN  {sc \in UNION {Range(map[h]) : h \in DOMAIN map} : sc.query # NoQuery}

\* A pair starts at an even slot and both its slots are slots of its pool
\* that have been handed out.
WellFormedPair(query) ==
    /\ pools[query.pool].alive
    /\ query.start_query_idx % 2 = 0
    /\ query.start_query_idx >= 0
    /\ query.start_query_idx + 1 < pools[query.pool].capacity
    /\ query.start_query_idx + 1 < pools[query.pool].num_used_queries

\* No two scopes of a set hold the same pair.
DistinctPairs(scopes) ==
    \A a, b \in scopes :
        (a.query.pool = b.query.pool
           /\ a.query.start_query_idx = b.query.start_query_idx)
          => a.label = b.label

\* C14: every reserved pair, of a scope that is open, closed or queued with
\* its frame, starts at an even slot, and this slot and the next one (the end
\* slot) lie within the capacity of the one pool the pair refers to and are
\* reserved in it; no two scopes of a frame hold the same pair, so that an
\* end slot is never another pair's start slot.
C14_PairingInvariant ==
    /\ \A sc \in ActiveTimedScopes : WellFormedPair(sc.query)
    /\ DistinctPairs(ActiveTimedScopes)
    /\ \A i \in 1..Len(pending_frames) :
          /\ \A sc \in PendingTimedScopes(pending_frames[i]) :
                /\ WellFormedPair(sc.query)
                /\ sc.query.pool \in Range(pending_frames[i].query_pools)
          /\ DistinctPairs(PendingTimedScopes(pending_frames[i]))
    /\ \A p \in PoolIds :
          /\ pools[p].num_used_queries <= pools[p].capacity
          /\ pools[p].num_used_queries % 2 = 0

\* The last pair of a full first pool and a pair of a second pool are held
\* by scopes of the same frame.
C14_Witness ==
    \E a, b \in ActiveTimedScopes :
        /\ a.query.start_query_idx = MIN_CAPACITY - 2
        /\ pools[a.query.pool].num_used_queries = pools[a.query.pool].capacity
        /\ b.query.pool # a.query.pool

\* C15: when the owner and the worker threads have recorded top-level
\* scopes concurrently and the frame was resolved and ended, the frame
\* holds every scope that was closed, and the result handed out has exactly
\* one top-level node for each closed scope with a pair, no node twice and
\* no two nodes with the same pair, in the order the scopes were closed.
C15_ThreadedScopesAllReported ==
    /\ \A i \in 1..Len(pending_frames) :
          LET log == frame_log[pending_frames[i].id]
          IN  log.discarded = 0 =>
                /\ LabelsInMap(pending_frames[i].closed_scope_by_parent_handle)
                     = 1..(Prefill + NumThreads * ScopesPerThread)
                /\ Len(log.closed) = Prefill + NumThreads * ScopesPerThread
    /\ \A i \in 1..Len(returned) :
          LET log == frame_log[returned[i].frame]
              results == returned[i].results
              timed == SelectSeq(log.closed, LAMBDA e : e.timed)
          IN  log.discarded = 0 =>
                /\ Len(results) = Len(timed)
                /\ \A j \in 1..Len(results) :
                      /\ results[j].label = timed[j].label
                      /\ results[j].nested_scopes = <<>>
                /\ \A j, k \in 1..Len(results) :
                      (results[j].pool = results[k].pool
                         /\ results[j].start_query_idx = results[k].start_query_idx)
                        => j = k
                /\ settings.enable_timer_scopes
                      => Len(results) = Prefill + NumThreads * ScopesPerThread

\* A frame handed out with a node for every scope of the owner and the
\* workers, from two pools, with scopes closed in another order than begun.
C15_Witness ==
    \E i \in 1..Len(returned) :
        LET results == returned[i].results
        IN  /\ Len(results) = Prefill + NumThreads * ScopesPerThread
            /\ \E j, k \in 1..Len(results) : results[j].pool # results[k].pool
            /\ \E j, k \in 1..Len(results) :
                  j < k /\ results[j].label > results[k].label

\* The scope a begin_scope or begin_pass_scope step has returned.
BegunScopes == {sc \in open_scopes' : sc.label = begun_total + 1}

\* What a step that begins a scope without a query does.
BeginsUntimed ==
    /\ UNCHANGED <<pools, used_pools, frame_unused_pools>>
    /\ num_open_scopes' = num_open_scopes + 1
    /\ Cardinality(BegunScopes) = 1
    /\ \A sc \in BegunScopes : sc.query = NoQuery

\* C16: a scope begun while enable_timer_scopes is false, or on a pass of a
\* device without TIMESTAMP_QUERY_INSIDE_PASSES (or on an encoder of a device
\* without TIMESTAMP_QUERY), reserves nothing and holds no query, but counts
\* as an open scope: end_frame returns UnclosedScopes until it is ended, and
\* ending it takes one from the count. A frame that is handed out has one
\* node for every scope closed in it with a pair, also for those closed
\* before timer scopes were disabled, and no node for a scope without one.
C16_UntimedScopes ==
    /\ [][/\ \A parent \in ParentChoices, is_pass \in BOOLEAN :
                (/\ BeginScope(parent, is_pass)
                 /\ \/ ~settings.enable_timer_scopes
                    \/ is_pass /\ TIMESTAMP_QUERY_INSIDE_PASSES \notin device_features
                    \/ ~is_pass /\ TIMESTAMP_QUERY \notin device_features)
                  => BeginsUntimed
          /\ \A parent \in ParentChoices :
                (/\ BeginPassScope(parent)
                 /\ \/ ~settings.enable_timer_scopes
                    \/ TIMESTAMP_QUERY \notin device_features)
                  => BeginsUntimed
          /\ (last_call'.op = "end_frame"
                /\ \E sc \in open_scopes : sc.query = NoQuery)
                  => /\ last_call'.result = "UnclosedScopes"
                     /\ last_call'.value = Cardinality(open_scopes)
          /\ \A sc \in open_scopes :
                (EndScope(sc) /\ sc.query = NoQuery)
                  => /\ num_open_scopes' = num_open_scopes - 1
                     /\ UNCHANGED <<pools, used_pools>>
         ]_vars
    /\ [](\A i \in 1..Len(returned) :
            LET log == frame_log[returned[i].frame]
                nodes == TreeNodes(returned[i].results)
            IN  log.discarded = 0 =>
                  /\ {nodes[j].label : j \in 1..Len(nodes)}
                       = {log.closed[j].label :
                            j \in {k \in 1..Len(log.closed) : log.closed[k].timed}}
                  /\ \A j, k \in 1..Len(nodes) :
                        nodes[j].label = nodes[k].label => j = k)

\* Timer scopes were disabled after a scope with a pair was closed; a scope
\* begun afterwards in the same frame was closed without one, and the frame
\* handed out has the node of the first scope only.
C16_Witness ==
    /\ settings_changes >= 1
    /\ ~settings.enable_timer_scopes
    /\ Len(returned) = 1
    /\ LET log == frame_log[returned[1].frame]
       IN  /\ Len(log.closed) >= 2
           /\ log.closed[1].timed
           /\ ~log.closed[Len(log.closed)].timed
           /\ log.discarded = 0
           /\ Len(returned[1].results) = 1
           /\ returned[1].results[1].label = log.closed[1].label

\* C17: once change_settings has disabled timer scopes, and for as long as
\* they stay disabled, the profiler keeps no unused pool: neither of the two
\* unused_pools vectors holds one, also after every later
\* process_finished_frame and eviction.
C17_NoRecycledPoolWhileDisabled ==
    (created /\ settings_changes >= 1 /\ ~settings.enable_timer_scopes)
        => /\ unused_pools = <<>>
           /\ frame_unused_pools = <<>>

\* C18: process_finished_frame returns results only if the queue is not
\* empty and the oldest pending frame has as many mapped buffers as pools,
\* and then they are that frame's; with fewer mapped buffers, or with no
\* pending frame, it returns None and changes neither the queue, nor the
\* recycle cache, nor any pool, nor the mappings in flight.
C18_ReturnsOnlyMappedHead ==
    [][ProcessFinishedFrame =>
          /\ last_call'.result = "Some" =>
                /\ pending_frames # <<>>
                /\ pending_frames[1].mapped_buffers
                      = Len(pending_frames[1].query_pools)
                /\ pending_frames' = Tail(pending_frames)
                /\ Len(returned') = Len(returned) + 1
                /\ returned'[Len(returned')].frame = pending_frames[1].id
          /\ (\/ pending_frames = <<>>
              \/ pending_frames[1].mapped_buffers
                    # Len(pending_frames[1].query_pools)) =>
                /\ last_call'.result = "None"
                /\ UNCHANGED <<pending_frames, frame_unused_pools,
                               unused_pools, used_pools, pools, callbacks,
                               returned>>
       ]_vars

\* process_finished_frame has returned None although a later frame of the
\* queue is mapped completely and the recycle cache holds a pool: the oldest
\* frame is still waiting for its mapping.
C18_Witness ==
    /\ last_call.op = "process_finished_frame"
    /\ last_call.result = "None"
    /\ Len(pending_frames) = 2
    /\ pending_frames[1].mapped_buffers < Len(pending_frames[1].query_pools)
    /\ pending_frames[2].mapped_buffers = Len(pending_frames[2].query_pools)
    /\ frame_unused_pools # <<>>
    /\ returned # <<>>

\* The scope labels an UnclosedScopes payload holds: end_frame passes
\* num_open_scopes, a number, which holds no label.
LabelsInPayload(payload) == {}

\* The number of unresolved queries of the active frame.
UnresolvedInActiveFrame ==
    SumSeq([i \in 1..Len(used_pools) |->
               pools[used_pools[i]].num_used_queries
                 - pools[used_pools[i]].num_resolved_queries])

\* The UnresolvedQueries half of C19: the error carries the number of
\* unresolved queries of the frame's pools, two for every scope closed with a
\* pair and not resolved.
UnresolvedQueriesPayload ==
    [][(EndFrame /\ last_call'.result = "UnresolvedQueries") =>
          /\ last_call'.value = UnresolvedInActiveFrame
          /\ last_call'.value > 0
          /\ last_call'.value % 2 = 0
       ]_vars

\* C19: an end_frame that fails with UnclosedScopes carries the labels of
\* exactly the scopes that are still open, and one that fails with
\* UnresolvedQueries carries the sum over the frame's pools of used minus
\* resolved queries.
C19_ErrorPayloads ==
    [][EndFrame =>
          /\ last_call'.result = "UnclosedScopes" =>
                LabelsInPayload(last_call'.value)
                  = {sc.label : sc \in open_scopes}
          /\ last_call'.result = "UnresolvedQueries" =>
                last_call'.value = UnresolvedInActiveFrame
       ]_vars

\* C20: a mapping that fails for a frame that is still in the pending queue
\* is fatal: the callback does not return without a panic (only the abort of
\* the mappings of an evicted frame is ignored).
C20_MappingFailureFatal ==
    (/\ last_call.op = "map_callback"
     /\ last_call.result = "Err"
     /\ last_call.value \in PendingIds)
        => panicked # "none"

\* C21: begin_scope pushes a debug group for the scope it returns exactly
\* when enable_debug_groups is set, whether or not the scope has a query;
\* end_scope pops a group exactly for a scope whose group is open. No pop is
\* made for a scope without a group, and no group stays open once its scope
\* is closed.
C21_DebugGroupsBalanced ==
    /\ [][/\ \A parent \in ParentChoices, is_pass \in BOOLEAN :
                (BeginScope(parent, is_pass) /\ panicked' = "none") =>
                    /\ (begun_total + 1 \in debug_groups'.open)
                          <=> settings.enable_debug_groups
                    /\ debug_groups'.open \ {begun_total + 1}
                          = debug_groups.open
          /\ \A sc \in open_scopes :
                (EndScope(sc) /\ panicked' = "none") =>
                    debug_groups'.open = debug_groups.open \ {sc.label}
         ]_vars
    /\ [](/\ debug_groups.stray_pops = {}
          /\ debug_groups.open
                = {sc.label : sc \in {o \in open_scopes : o.has_debug_group}}
          /\ \A sc \in open_scopes :
                sc.has_debug_group =>
                    sc.query.usage_state # "ReservedForPassTimestampWrites")

\* A scope without a query had its debug group pushed and popped; after a
\* change of settings a scope with a query is open without a debug group.
C21_Witness ==
    /\ \E i \in 1..Len(closed_scopes) :
          /\ closed_scopes[i].has_debug_group
          /\ closed_scopes[i].query = NoQuery
          /\ closed_scopes[i].label \notin debug_groups.open
    /\ \E sc \in open_scopes :
          /\ sc.query # NoQuery
          /\ ~sc.has_debug_group
          /\ sc.label \notin debug_groups.open
    /\ ~settings.enable_debug_groups

\* C22: end_scope called while no scope is open returns NoOpenScope and
\* leaves the profiler as it was.
C22_NoOpenScopeRejected ==
    [][EndScopeNoneOpen =>
          /\ last_call'.result = "NoOpenScope"
          /\ UNCHANGED profiler_state
       ]_vars

\* C23: every pool has resolved <= used <= capacity, an even number of used
\* queries, and an even capacity between MIN_CAPACITY and
\* QUERY_SET_MAX_QUERIES.
C23_PoolCounters ==
    \A p \in PoolIds :
        pools[p].alive =>
            /\ pools[p].num_resolved_queries <= pools[p].num_used_queries
            /\ pools[p].num_used_queries <= pools[p].capacity
            /\ pools[p].num_used_queries % 2 = 0
            /\ pools[p].capacity % 2 = 0
            /\ pools[p].capacity >= MIN_CAPACITY
            /\ pools[p].capacity <= QUERY_SET_MAX_QUERIES

\* A frame holds a full pool that is larger than MIN_CAPACITY and resolved,
\* and a second pool with pairs that are not resolved yet; a pool of an
\* earlier frame waits in the cache with its counters at zero.
C23_Witness ==
    /\ Len(used_pools) = 2
    /\ pools[used_pools[1]].capacity > MIN_CAPACITY
    /\ pools[used_pools[1]].num_used_queries = pools[used_pools[1]].capacity
    /\ pools[used_pools[1]].num_resolved_queries
          = pools[used_pools[1]].num_used_queries
    /\ pools[used_pools[2]].num_used_queries > 0
    /\ pools[used_pools[2]].num_resolved_queries = 0
    /\ \E i \in 1..Len(frame_unused_pools) :
          /\ pools[frame_unused_pools[i]].alive
          /\ pools[frame_unused_pools[i]].num_used_queries = 0

\* The slots a scope writes its two timestamps to.
SlotsOf(sc) ==
    {<<sc.query.pool, sc.query.start_query_idx>>,
     <<sc.query.pool, sc.query.start_query_idx + 1>>}

\* C24: however the begin_scope calls of the threads interleave, no slot
\* belongs to the pairs of two scopes of the frame, and every slot a pool has
\* handed out belongs to the pair of one scope.
C24_NoSlotSharedByThreads ==
    /\ \A a, b \in ActiveTimedScopes :
          a.label # b.label => SlotsOf(a) \cap SlotsOf(b) = {}
    /\ \A i \in 1..Len(used_pools) :
          UNION {SlotsOf(sc) : sc \in {a \in ActiveTimedScopes :
                                         a.query.pool = used_pools[i]}}
            = {<<used_pools[i], q>> :
                 q \in 0..(pools[used_pools[i]].num_used_queries - 1)}

\* Two workers loaded the same num_used_queries; one has stored and holds
\* the pair, the other is about to compare-exchange with the stale value.
C24_Witness ==
    \E t, u \in Threads \ {0} :
        /\ t # u
        /\ threads[t].pc = "cas"
        /\ threads[u].pc = "open"
        /\ threads[t].pool = ScopeWithLabel(threads[u].label).query.pool
        /\ threads[t].num_used_queries
              = ScopeWithLabel(threads[u].label).query.start_query_idx

\* The pools whose num_used_queries a step raises.
PoolsReservedFrom ==
    {p \in PoolIds : pools'[p].num_used_queries > pools[p].num_used_queries}

\* C25: every pool of the frame but the last is full; a pair is only taken
\* from the pool that is last after the step; and used_pools grows only by
\* one pool, in the step under the write lock, when it was empty or its last
\* pool had no room for a pair.
C25_OnlyLastPoolFilled ==
    /\ [](\A i \in 1..(Len(used_pools) - 1) :
            pools[used_pools[i]].num_used_queries = pools[used_pools[i]].capacity)
    /\ [][\A p \in PoolsReservedFrom :
            /\ used_pools' # <<>>
            /\ p = used_pools'[Len(used_pools')]]_vars
    /\ [][Len(used_pools') > Len(used_pools) =>
            /\ Len(used_pools') = Len(used_pools) + 1
            /\ \E t \in Threads : threads[t].pc = "write"
            /\ \A t \in Threads : threads[t].pc # "cas"
            /\ \/ used_pools = <<>>
               \/ pools[used_pools[Len(used_pools)]].capacity
                    - pools[used_pools[Len(used_pools)]].num_used_queries < 2]_vars

\* A worker found the last pool exhausted under the read lock, and under the
\* write lock took its pair from the pool another worker had added meanwhile.
C25_Witness ==
    \E t \in Threads \ {0} :
        /\ threads[t].pc = "open"
        /\ Len(used_pools) = 2
        /\ threads[t].pool = used_pools[1]
        /\ ScopeWithLabel(threads[t].label).query.pool = used_pools[2]
        /\ ScopeWithLabel(threads[t].label).query.start_query_idx > 0

\* The capacities of the pools used so far in the frame, added up.
CapacityInUse ==
    SumSeq([i \in 1..Len(used_pools) |-> pools[used_pools[i]].capacity])

\* C26: the pool a reservation appends is the one on top of the recycle
\* cache when the cache holds any, with the capacity it had; with an empty
\* cache it is a pool that did not exist, of capacity
\* min(max(capacities in use, size_for_new_query_pools), QUERY_SET_MAX_QUERIES).
C26_AppendedPool ==
    [][Len(used_pools') > Len(used_pools) =>
         LET appended == used_pools'[Len(used_pools')]
             cached == Len(frame_unused_pools)
         IN  IF cached > 0
             THEN /\ appended = frame_unused_pools[cached]
                  /\ frame_unused_pools' = SubSeq(frame_unused_pools, 1, cached - 1)
                  /\ pools'[appended].capacity = pools[appended].capacity
             ELSE /\ ~pools[appended].alive
                  /\ pools'[appended].alive
                  /\ frame_unused_pools' = <<>>
                  /\ \/ /\ CapacityInUse >= size_for_new_query_pools
                        /\ CapacityInUse <= QUERY_SET_MAX_QUERIES
                        /\ pools'[appended].capacity = CapacityInUse
                     \/ /\ CapacityInUse < size_for_new_query_pools
                        /\ size_for_new_query_pools <= QUERY_SET_MAX_QUERIES
                        /\ pools'[appended].capacity = size_for_new_query_pools
                     \/ /\ CapacityInUse > QUERY_SET_MAX_QUERIES
                        /\ pools'[appended].capacity = QUERY_SET_MAX_QUERIES]_vars

\* A frame whose first two pools came from the cache (they are smaller than
\* a new pool would be) and whose third was created as large as both.
C26_Witness ==
    /\ Len(used_pools) = 3
    /\ pools[used_pools[1]].capacity < size_for_new_query_pools
    /\ pools[used_pools[2]].capacity < size_for_new_query_pools
    /\ pools[used_pools[3]].capacity
         = pools[used_pools[1]].capacity + pools[used_pools[2]].capacity
    /\ pools[used_pools[3]].capacity > size_for_new_query_pools
    /\ pools[used_pools[3]].num_used_queries = 2

\* C27: the expect on the pair of the pool about to be pushed never fails:
\* every pool in used_pools has given out a pair, and every pool waiting in
\* the recycle cache has room for one.
C27_ReserveNeverFails ==
    /\ panicked # FreshPoolExpectation
    /\ \A i \in 1..Len(used_pools) :
          pools[used_pools[i]].num_used_queries >= 2
    /\ \A i \in 1..Len(frame_unused_pools) :
          pools[frame_unused_pools[i]].capacity
            - pools[frame_unused_pools[i]].num_used_queries >= 2

\* The second frame has filled one recycled pool and taken a pair from a
\* second recycled pool, the one the frame before had filled.
C27_Witness ==
    /\ frame_count = 1
    /\ Len(used_pools) = 2
    /\ pools[used_pools[1]].capacity < size_for_new_query_pools
    /\ pools[used_pools[2]].capacity < size_for_new_query_pools
    /\ pools[used_pools[1]].num_used_queries = pools[used_pools[1]].capacity
    /\ pools[used_pools[2]].num_used_queries = 2
    /\ size_for_new_query_pools = 2 * HalfFrame

\* The query slots of the scopes closed in the frame being recorded.
SlotsOfClosedScopes ==
    2 * Len(SelectSeq(closed_scopes, LAMBDA sc : sc.query # NoQuery))

\* C28: size_for_new_query_pools lies between MIN_CAPACITY and
\* QUERY_SET_MAX_QUERIES and never decreases; an end_frame that returns Ok
\* makes it the larger of its value and the slots the frame used, capped at
\* QUERY_SET_MAX_QUERIES; every other step, a failed end_frame included,
\* leaves it alone.
C28_WatermarkMonotone ==
    /\ [](/\ MIN_CAPACITY <= size_for_new_query_pools
          /\ size_for_new_query_pools <= QUERY_SET_MAX_QUERIES)
    /\ [][size_for_new_query_pools' >= size_for_new_query_pools]_vars
    /\ [][frame_count' # frame_count =>
            /\ last_call' = [op |-> "end_frame", result |-> "Ok",
                             value |-> frame_count']
            /\ \/ /\ SlotsOfClosedScopes <= size_for_new_query_pools
                  /\ size_for_new_query_pools' = size_for_new_query_pools
               \/ /\ SlotsOfClosedScopes > size_for_new_query_pools
                  /\ SlotsOfClosedScopes <= QUERY_SET_MAX_QUERIES
                  /\ size_for_new_query_pools' = SlotsOfClosedScopes
               \/ /\ SlotsOfClosedScopes > QUERY_SET_MAX_QUERIES
                  /\ size_for_new_query_pools' = QUERY_SET_MAX_QUERIES]_vars
    /\ [][frame_count' = frame_count =>
            size_for_new_query_pools' = size_for_new_query_pools]_vars

\* A frame of FullFrame scopes raised the watermark, and the smaller frame
\* that ended after it left it there.
C28_Witness ==
    /\ frame_count = 2
    /\ last_call = [op |-> "end_frame", result |-> "Ok", value |-> 2]
    /\ Len(frame_log[1].closed) = FullFrame
    /\ Len(frame_log[2].closed) = HalfFrame
    /\ size_for_new_query_pools = 2 * FullFrame

\* The pending frames a step takes out of the queue.
ReclaimedFrames ==
    {f \in Range(pending_frames) :
        \A g \in Range(pending_frames') : g.id # f.id}

\* C29: when a step takes a frame out of the queue, to return its results
\* or to evict it, each of its pools is in the recycle cache afterwards with
\* both counters at zero and the capacity it had, if timer scopes are enabled
\* and the capacity is at least half of size_for_new_query_pools as the step
\* leaves it (rounded down); otherwise the pool is neither cached nor alive.
\* Nothing else enters the cache.
C29_ReclaimedPools ==
    [][LET reclaimed == UNION {Range(f.query_pools) : f \in ReclaimedFrames}
       IN  /\ \A p \in reclaimed :
                 IF /\ settings.enable_timer_scopes
                    /\ 2 * pools[p].capacity + 1 >= size_for_new_query_pools'
                 THEN /\ p \in Range(frame_unused_pools')
                      /\ pools'[p].alive
                      /\ pools'[p].num_used_queries = 0
                      /\ pools'[p].num_resolved_queries = 0
                      /\ pools'[p].capacity = pools[p].capacity
                 ELSE /\ p \notin Range(frame_unused_pools')
                      /\ ~pools'[p].alive
           /\ Range(frame_unused_pools') \subseteq
                 Range(frame_unused_pools) \cup reclaimed]_vars

\* Two frames have been returned. The first used pools of 32, 32 and 64
\* queries and raised the watermark to 66 before it was reclaimed, so only
\* its largest pool was kept; the second was recorded with timer scopes and
\* reclaimed after they had been switched off, so none of its pools was kept.
C29_Witness ==
    /\ frame_count = 2
    /\ pending_frames = <<>>
    /\ ~settings.enable_timer_scopes
    /\ Len(frame_log[1].closed) = FullFrame
    /\ size_for_new_query_pools = 2 * FullFrame
    /\ Len(returned) = 2
    /\ returned[2].results # <<>>
    /\ frame_unused_pools = <<>>
    /\ \A p \in PoolIds : ~pools[p].alive

\* Frames f - 1 and f recorded the same number of scopes and left the
\* allocator as they found it: the same pools used, the same pools left in
\* the cache, the same size_for_new_query_pools. With every frame returned
\* before the next is recorded, each later frame of that many scopes repeats
\* frame f.
SteadyFrom(f) ==
    /\ f > 1
    /\ Len(frame_log[f].closed) = Len(frame_log[f - 1].closed)
    /\ frame_log[f].alloc = frame_log[f - 1].alloc
    /\ \E i \in 1..Len(returned) : returned[i].frame = f - 1

\* C30: with the same number of slots reserved in every frame and every
\* frame returned, the frames end up reserving from a single pool: a frame
\* that every later frame repeats has used one pool.
C30_ConvergesToOnePool ==
    \A f \in 1..Len(frame_log) :
        SteadyFrom(f) /\ frame_log[f].alloc.used # <<>>
            => Len(frame_log[f].alloc.used) = 1

\* The scopes of the frame being recorded, and the scopes of a pending frame.
ActiveScopes == open_scopes \cup Range(closed_scopes)

PendingScopes(frame) ==
    LET map == frame.closed_scope_by_parent_handle
    IN  UNION {Range(map[h]) : h \in DOMAIN map}

\* No two scopes of a set have the same handle.
DistinctHandles(scopes) ==
    \A a, b \in scopes : a.handle = b.handle => a.label = b.label

\* C31: no scope has ROOT_SCOPE_HANDLE as its handle, and the scopes of a
\* frame in which fewer handles were issued than there are handles have
\* handles that differ from each other, whichever way the threads took them
\* and wherever the counter wrapped around.
C31_HandlesDistinct ==
    /\ \A sc \in ActiveScopes : sc.handle # ROOT_SCOPE_HANDLE
    /\ \A i \in 1..Len(pending_frames) :
          \A sc \in PendingScopes(pending_frames[i]) :
              sc.handle # ROOT_SCOPE_HANDLE
    /\ begun_in_frame < HandleModulus - 1 => DistinctHandles(ActiveScopes)
    /\ \A i \in 1..Len(pending_frames) :
          Cardinality(PendingScopes(pending_frames[i])) < HandleModulus - 1
              => DistinctHandles(PendingScopes(pending_frames[i]))

\* Two workers hold scopes of one frame whose handles lie on either side of
\* the wrap-around: the larger handle went to the scope begun first.
C31_Witness ==
    \E a, b \in open_scopes :
        /\ a.label < b.label
        /\ a.handle > b.handle
        /\ a.handle = ROOT_SCOPE_HANDLE - 1
        /\ b.handle = 0
        /\ next_scope_handle = 1

\* The threads inside begin_scope, holding a scope, or inside end_scope.
ThreadsWithScope == {t \in Threads : threads[t].pc # "idle"}

\* The labels of the scopes filed in the channel of the active frame.
FiledLabels == {closed_scopes[i].label : i \in 1..Len(closed_scopes)}

\* C32: num_open_scopes is the number of scopes begun and not ended,
\* wherever the threads stand in begin_scope and end_scope; a thread that
\* has yet to decrement it has filed its scope; and while it is zero, the
\* scopes begun in the frame are the ones filed in the channel (or dropped
\* with the frame by an end_frame that failed).
C32_CounterTracksOpenScopes ==
    /\ num_open_scopes = Cardinality(ThreadsWithScope)
    /\ \A t \in Threads :
          threads[t].pc = "sent" => threads[t].label \in FiledLabels
    /\ num_open_scopes = 0 =>
          /\ open_scopes = {}
          /\ Len(closed_scopes) + discarded = begun_in_frame
          /\ Cardinality(FiledLabels) = Len(closed_scopes)

\* One worker has filed its scope and not yet decremented the count, while
\* the other is inside begin_scope past the increment.
C32_Witness ==
    \E t, u \in Threads \ {0} :
        /\ threads[t].pc = "sent"
        /\ threads[u].pc \in {"handle", "read", "cas", "write"}
        /\ num_open_scopes = 2
        /\ threads[t].label \in FiledLabels

\* C33: reset_and_cache_unused_query_pools never finds a pool that a scope
\* still refers to: process_finished_frame and end_frame never fail with
\* "Pool still in use", and the pools in the recycle cache are referred to
\* by no scope of the active frame or of a pending frame.
C33_PoolsUnreferencedAtReclaim ==
    /\ panicked # "Pool still in use"
    /\ \A i \in 1..Len(frame_unused_pools) :
          /\ \A sc \in ActiveTimedScopes : sc.query.pool # frame_unused_pools[i]
          /\ \A j \in 1..Len(pending_frames) :
                \A sc \in PendingTimedScopes(pending_frames[j]) :
                    sc.query.pool # frame_unused_pools[i]

\* The pools of the frames in the pending queue.
PendingPools ==
    UNION {Range(pending_frames[i].query_pools) : i \in 1..Len(pending_frames)}

\* C34: the step of end_frame that evicts a frame takes the frame with its
\* closed scopes out of the queue for good, and leaves none of its mappings
\* in flight: they have all completed or been aborted by the time its pools
\* are in the recycle cache. No pool of the recycle cache or of the frame
\* being recorded has a mapping in flight.
C34_EvictedPoolsQuiescent ==
    /\ [][\A f \in dropped' \ dropped :
            /\ f \in PendingIds
            /\ \A i \in 1..Len(pending_frames') : pending_frames'[i].id # f
            /\ \A cb \in callbacks' : cb.frame # f
            /\ \A i \in 1..Len(pending_frames) :
                  pending_frames[i].id = f =>
                      \A p \in Range(pending_frames[i].query_pools) :
                          /\ \A cb \in callbacks' : cb.pool # p
                          /\ p \in Range(frame_unused_pools') \/ ~pools'[p].alive]_vars
    /\ [](\A cb \in callbacks :
            /\ cb.pool \notin Range(frame_unused_pools)
            /\ cb.pool \notin Range(used_pools)
            /\ cb.pool \in PendingPools
            /\ cb.frame \in PendingIds)

\* The second frame was ended while a mapping of the first was in flight:
\* the first frame was evicted, its mapping aborted, and its pool is the one
\* the third frame is being recorded with.
C34_Witness ==
    /\ frame_count = 2
    /\ dropped = {1}
    /\ frame_log[2].aborted_mappings > 0
    /\ Len(pending_frames) = 1
    /\ pending_frames[1].id = 2
    /\ Len(used_pools) = 1
    /\ used_pools[1] \notin PendingPools
    /\ frame_unused_pools = <<>>
    /\ Cardinality({p \in PoolIds : pools[p].alive}) = 2

\* The pending frame with an id, and whether a queue holds one.
FrameWithId(frames, id) == frames[CHOOSE i \in 1..Len(frames) : frames[i].id = id]
IdsOf(frames) == {frames[i].id : i \in 1..Len(frames)}

\* C35: mapped_buffers of a pending frame starts at 0, never exceeds the
\* number of the frame's pools, and changes only by one, in a step in which a
\* mapping of one of the frame's own pools completes with Ok; a step that
\* evicts a frame, aborting its mappings, changes the count of no frame that
\* stays in the queue and returns no frame.
C35_MappedBuffersCount ==
    /\ [](\A i \in 1..Len(pending_frames) :
            /\ pending_frames[i].mapped_buffers >= 0
            /\ pending_frames[i].mapped_buffers
                  <= Len(pending_frames[i].query_pools))
    /\ [][\A id \in IdsOf(pending_frames') :
            LET after == FrameWithId(pending_frames', id)
            IN  IF id \notin IdsOf(pending_frames)
                THEN after.mapped_buffers = 0
                ELSE LET before == FrameWithId(pending_frames, id)
                     IN  after.mapped_buffers # before.mapped_buffers =>
                           /\ after.mapped_buffers = before.mapped_buffers + 1
                           /\ last_call' = [op |-> "map_callback",
                                            result |-> "Ok", value |-> id]
                           /\ \E cb \in callbacks \ callbacks' :
                                 /\ cb.frame = id
                                 /\ cb.pool \in Range(before.query_pools)
                                 /\ callbacks' = callbacks \ {cb}]_vars
    /\ [][dropped' # dropped =>
            /\ returned' = returned
            /\ \A id \in IdsOf(pending_frames) \cap IdsOf(pending_frames') :
                  FrameWithId(pending_frames', id).mapped_buffers
                    = FrameWithId(pending_frames, id).mapped_buffers]_vars

\* A frame was evicted with a mapping in flight while an older frame, whose
\* mapping had completed, stayed in the queue with its count.
C35_Witness ==
    /\ last_call.op = "end_frame"
    /\ last_call.result = "Ok"
    /\ Len(pending_frames) = 2
    /\ dropped # {}
    /\ frame_log[frame_count].aborted_mappings > 0
    /\ pending_frames[1].mapped_buffers = 1
    /\ Len(pending_frames[1].query_pools) = 1
    /\ pending_frames[2].mapped_buffers = 0
    /\ pending_frames[2].id = frame_count
\* C36: frames are handed out in the order in which their end_frame calls
\* succeeded: a frame that process_finished_frame returns was ended before
\* every frame that is still queued and after every frame returned earlier,
\* also when a younger frame of the queue was mapped completely first.
C36_ReturnedOldestFirst ==
    /\ \A i, j \in 1..Len(returned) :
          i < j => returned[i].frame < returned[j].frame
    /\ \A i, j \in 1..Len(pending_frames) :
          i < j => pending_frames[i].id < pending_frames[j].id
    /\ [][(/\ last_call'.op = "process_finished_frame"
           /\ last_call'.result = "Some")
            => /\ pending_frames # <<>>
               /\ \A i \in 1..Len(pending_frames) :
                     last_call'.value <= pending_frames[i].id
               /\ \A i \in 1..Len(pending_frames') :
                     last_call'.value < pending_frames'[i].id
         ]_vars

\* Two frames are queued and nothing has been returned yet; the mappings
\* of the younger frame have completed, those of the older frame have not,
\* and process_finished_frame has just returned None.
C36_Witness ==
    /\ last_call.op = "process_finished_frame"
    /\ last_call.result = "None"
    /\ returned = <<>>
    /\ Len(pending_frames) = 2
    /\ pending_frames[1].id < pending_frames[2].id
    /\ pending_frames[2].query_pools # <<>>
    /\ AllBuffersMapped(pending_frames[2])
    /\ ~AllBuffersMapped(pending_frames[1])
\* The messages of the two unreachable! arms of end_scope.
UnreachableMessages ==
    {"Scope has been reserved but isn't used for anything!",
     "Scope has already been closed!"}

\* The calls of end_scope recorded so far: those of the frames ended and
\* those of the active frame.
RECURSIVE EndedScopesUpTo(_)
EndedScopesUpTo(f) ==
    IF f = 0 THEN <<>> ELSE EndedScopesUpTo(f - 1) \o frame_log[f].closed

EndedScopes == EndedScopesUpTo(frame_count) \o closed_log

\* What holds of the pairs whatever call handed them out: an open scope's
\* pair is in OnlyStartWritten or ReservedForPassTimestampWrites, so that
\* neither unreachable arm of end_scope is hit; begin_scope hands out
\* OnlyStartWritten, begin_pass_scope ReservedForPassTimestampWrites;
\* end_scope is called once per scope and writes one timestamp, to slot
\* start + 1 of the scope's own pair, exactly when the pair is in
\* OnlyStartWritten, and none otherwise.
PairProtocol ==
    /\ [](/\ panicked \notin UnreachableMessages
          /\ \A sc \in open_scopes :
                sc.query # NoQuery =>
                    sc.query.usage_state \in {"OnlyStartWritten",
                                              "ReservedForPassTimestampWrites"}
          /\ \A i, j \in 1..Len(EndedScopes) :
                EndedScopes[i].label = EndedScopes[j].label => i = j
          /\ \A i \in 1..Len(EndedScopes) :
                \A sc \in open_scopes : sc.label # EndedScopes[i].label)
    /\ [][/\ \A sc \in open_scopes' \ open_scopes :
               sc.query # NoQuery =>
                   sc.query.usage_state =
                       IF last_call'.op = "begin_pass_scope"
                       THEN "ReservedForPassTimestampWrites"
                       ELSE "OnlyStartWritten"
          /\ \A sc \in open_scopes \ open_scopes' :
               /\ last_call'.op = "end_scope"
               /\ last_call'.value = sc.label
               /\ last_call'.writes =
                     IF sc.query.usage_state = "OnlyStartWritten"
                     THEN {[pool |-> sc.query.pool,
                            query |-> sc.query.start_query_idx + 1]}
                     ELSE {}
               /\ Len(closed_scopes') = Len(closed_scopes) + 1
               /\ LET filed == closed_scopes'[Len(closed_scopes')]
                  IN  /\ filed.label = sc.label
                      /\ filed.query.pool = sc.query.pool
                      /\ filed.query.start_query_idx
                            = sc.query.start_query_idx
                      /\ filed.query.usage_state = "BothStartAndEndWritten"
                            <=> last_call'.writes # {}
         ]_vars

\* C37 as stated: the protocol above, and every pair of a scope filed as
\* closed has reached BothStartAndEndWritten.
C37_EveryPairReachesBothWritten ==
    /\ PairProtocol
    /\ [](\A i \in 1..Len(closed_scopes) :
             closed_scopes[i].query # NoQuery =>
                 closed_scopes[i].query.usage_state
                    = "BothStartAndEndWritten")

\* C37, amended: the protocol above, and the pair of a scope filed as closed
\* is in BothStartAndEndWritten when end_scope wrote its end timestamp (the
\* scope came from begin_scope) and still in ReservedForPassTimestampWrites
\* when end_scope wrote nothing (the scope came from begin_pass_scope): the
\* profiler never moves a pair reserved for a pass to BothStartAndEndWritten.
C37_PairProtocol ==
    /\ PairProtocol
    /\ [](\A i \in 1..Len(closed_scopes) :
             closed_scopes[i].query # NoQuery =>
                 closed_scopes[i].query.usage_state
                    \in {"BothStartAndEndWritten",
                         "ReservedForPassTimestampWrites"})
    /\ [][\A sc \in open_scopes \ open_scopes' :
             sc.query # NoQuery =>
                 closed_scopes'[Len(closed_scopes')].query.usage_state =
                     IF sc.query.usage_state = "ReservedForPassTimestampWrites"
                     THEN "ReservedForPassTimestampWrites"
                     ELSE "BothStartAndEndWritten"
         ]_vars

\* Two scopes with a pair were ended in one frame, the second just now: one
\* from begin_scope, filed with both timestamps written, one from
\* begin_pass_scope, filed without a timestamp written by the profiler.
C37_Witness ==
    /\ Len(closed_scopes) = 2
    /\ closed_scopes[1].query.usage_state = "BothStartAndEndWritten"
    /\ closed_scopes[2].query.usage_state = "ReservedForPassTimestampWrites"
    /\ last_call.op = "end_scope"
    /\ last_call.value = closed_scopes[2].label
    /\ last_call.writes = {}

\* The labels of the scopes of a result list, nested scopes included, in
\* pre-order.
ReportedLabels(results) ==
    LET edges == TreeEdges(results, 0)
    IN  [i \in 1..Len(edges) |-> edges[i].label]

\* The labels reported by all calls of process_finished_frame so far, each
\* with the frame whose result holds it.
RECURSIVE ReportedUpTo(_)
ReportedUpTo(n) ==
    IF n = 0 THEN <<>>
    ELSE LET labels == ReportedLabels(returned[n].results)
         IN  ReportedUpTo(n - 1)
               \o [i \in 1..Len(labels) |->
                      [label |-> labels[i], frame |-> returned[n].frame]]

Reported == ReportedUpTo(Len(returned))

\* C38: a successful end_frame appends exactly one pending frame, made of
\* the used pools and the closed scopes of the active frame, and leaves the
\* active frame without used pools and closed scopes; a scope is reported
\* at most once, and only in the result of the frame whose end_frame was
\* the first to succeed after the scope was closed.
C38_ActiveBecomesOnePending ==
    /\ [][(last_call'.op = "end_frame" /\ last_call'.result = "Ok"
             /\ panicked' = "none")
            => /\ frame_count' = frame_count + 1
               /\ used_pools' = <<>>
               /\ closed_scopes' = <<>>
               /\ pending_frames' # <<>>
               /\ LET new == pending_frames'[Len(pending_frames')]
                  IN  /\ new.id = frame_count'
                      /\ new.query_pools = used_pools
                      /\ LabelsInMap(new.closed_scope_by_parent_handle)
                            = {closed_scopes[i].label :
                                 i \in 1..Len(closed_scopes)}
                      /\ \A i \in 1..Len(pending_frames) :
                            pending_frames[i].id # new.id
               /\ Cardinality({i \in 1..Len(pending_frames') :
                                  pending_frames'[i].id = frame_count'}) = 1
               /\ \A i \in 1..(Len(pending_frames') - 1) :
                     \E j \in 1..Len(pending_frames) :
                        pending_frames'[i] = pending_frames[j]
         ]_vars
    /\ [](/\ \A i, j \in 1..Len(Reported) :
                Reported[i].label = Reported[j].label => i = j
          /\ \A i \in 1..Len(Reported) :
                \E k \in 1..Len(frame_log[Reported[i].frame].closed) :
                   frame_log[Reported[i].frame].closed[k].label
                      = Reported[i].label)

\* Two frames were ended while the first was still pending, and both have
\* been returned: each result holds the one scope closed in its frame.
C38_Witness ==
    /\ Len(returned) = 2
    /\ returned[2].polled_from >= 2
    /\ Len(Reported) = 2
    /\ Reported[1].frame # Reported[2].frame
    /\ Reported[1].label # Reported[2].label
    /\ used_pools = <<>>
    /\ closed_scopes = <<>>
\* The places a pool can be in: the recycle cache, the used-pool list of the
\* active frame, the pool list of a pending frame (named by its position in
\* the queue). One element per occurrence of the pool.
PlacesOf(p) ==
    {<<"cache", i>> : i \in {k \in 1..Len(frame_unused_pools) :
                                frame_unused_pools[k] = p}}
      \cup {<<"active", i>> : i \in {k \in 1..Len(used_pools) :
                                        used_pools[k] = p}}
      \cup UNION {{<<"pending", f, i>> :
                     i \in {k \in 1..Len(pending_frames[f].query_pools) :
                              pending_frames[f].query_pools[k] = p}} :
                  f \in 1..Len(pending_frames)}

\* C39: every pool that exists occurs exactly once in the recycle cache, the
\* used-pool list of the active frame and the pool lists of the pending
\* frames together, and a pool that does not exist occurs nowhere; a call
\* that resets the pools of a returned or evicted frame cancels no mapping
\* of a frame that stays queued.
C39_PoolInOnePlace ==
    /\ [](\A p \in PoolIds :
             Cardinality(PlacesOf(p)) = IF pools[p].alive THEN 1 ELSE 0)
    /\ [][\A cb \in callbacks \ callbacks' :
             \/ last_call'.op = "map_callback"
             \/ /\ cb.frame \notin {pending_frames'[i].id :
                                       i \in 1..Len(pending_frames')}
                /\ \A i \in 1..Len(pending_frames') :
                      cb.pool \notin Range(pending_frames'[i].query_pools)
         ]_vars

\* A frame has just been evicted while its mapping was in flight: its pool
\* is in the recycle cache, the mapping of the older frame that stays
\* queued is still in flight, and a third pool belongs to the frame that was
\* just ended.
C39_Witness ==
    /\ last_call.op = "end_frame"
    /\ last_call.result = "Ok"
    /\ dropped # {}
    /\ frame_unused_pools # <<>>
    /\ Len(pending_frames) = 2
    /\ \A i \in 1..2 :
          /\ pending_frames[i].query_pools # <<>>
          /\ \E cb \in callbacks :
                /\ cb.frame = pending_frames[i].id
                /\ cb.pool \in Range(pending_frames[i].query_pools)
    /\ frame_log[frame_count].aborted_mappings > 0
\* C40: a pending frame none of whose scopes reserved a pair has no pools,
\* no mapping was requested or completed for it, and the call of
\* process_finished_frame that finds it at the head of the queue returns it
\* with an empty result list.
C40_FrameWithoutPoolsReturnedAtOnce ==
    /\ [](\A i \in 1..Len(pending_frames) :
             LET frame == pending_frames[i]
                 log == frame_log[frame.id]
             IN  /\ (\A j \in 1..Len(log.closed) : ~log.closed[j].timed)
                       => frame.query_pools = <<>>
                 /\ frame.query_pools = <<>>
                       => /\ frame.mapped_buffers = 0
                          /\ \A cb \in callbacks : cb.frame # frame.id)
    /\ [][(/\ ProcessFinishedFrame
           /\ pending_frames # <<>>
           /\ pending_frames[1].query_pools = <<>>)
            => /\ last_call'.result = "Some"
               /\ last_call'.value = pending_frames[1].id
               /\ pending_frames' = Tail(pending_frames)
               /\ Len(returned') = Len(returned) + 1
               /\ returned'[Len(returned')].frame = pending_frames[1].id
               /\ returned'[Len(returned')].results = <<>>
               /\ callbacks' = callbacks
         ]_vars

\* Timer scopes are disabled, and a frame whose one scope got no pair has
\* just been returned with an empty result list by the first call of
\* process_finished_frame after its end_frame; no mapping was requested.
C40_Witness ==
    /\ last_call.op = "process_finished_frame"
    /\ last_call.result = "Some"
    /\ ~settings.enable_timer_scopes
    /\ Len(returned) = 1
    /\ returned[1].results = <<>>
    /\ returned[1].polled_from = returned[1].frame
    /\ Len(frame_log[returned[1].frame].closed) = 1
    /\ ~frame_log[returned[1].frame].closed[1].timed
    /\ callbacks = {}
====
